---- MODULE Spec2Model ----
(***************************************************************************)
(* Model of the redaction engine of core/fpdfapi/edit/cpdf_text_redactor   *)
(* (the four-argument engine with image, path and overlay support, and the *)
(* earlier three-argument text-only engine).                               *)
(*                                                                         *)
(* Numbers.  The C++ code computes in float.  The model computes in exact  *)
(* fixed point:                                                            *)
(*   - "thousandths" (glyph widths, TJ numbers, kernings) are counted in   *)
(*     eighths of a thousandth, so that the deadband 0.25 and the rounding *)
(*     offset 0.5 are integers (Unit = one thousandth);                    *)
(*   - user-space lengths (origins, rect coordinates, matrix e and f) are  *)
(*     counted in 1/(1000*Unit) of a user unit, so that                    *)
(*     thousandths * font_size / 1000 is the integer product th * fs.      *)
(* Matrix coefficients a, b, c, d are plain integers.                      *)
(***************************************************************************)
EXTENDS Integers, Sequences, FiniteSets, TLC

VARIABLES
    tpc,        \* text-rewriter harness: "ready", then "done4" or "done3" (the engine that ran)
    tin,        \* inputs of the call: [to, rects, p2p]
    tout,       \* result of the call: see RedactTextObjectMulti
    pstore,     \* page harness: the holders of the page and its forms
    hist        \* page harness: the engine calls made so far, oldest first

vars == <<tpc, tin, tout, pstore, hist>>

----------------------------------------------------------------------------
(* Fixed point *)

\* kTJDeadband = 0.25 thousandths, in eighths of a thousandth.
kTJDeadband == 2

\* One thousandth (four deadbands), and half a thousandth.
Unit == 4 * kTJDeadband
Half == 2 * kTJDeadband

\* One user unit (1000 thousandths of an em at font size 1).
User == 1000 * Unit

Abs(x) == IF x < 0 THEN -x ELSE x
Min2(x, y) == IF x < y THEN x ELSE y
Max2(x, y) == IF x < y THEN y ELSE x
Min4(w, x, y, z) == Min2(Min2(w, x), Min2(y, z))
Max4(w, x, y, z) == Max2(Max2(w, x), Max2(y, z))

----------------------------------------------------------------------------
(* Geometry: CFX_FloatRect and CFX_Matrix *)

Rect(l, b, r, t) == [left |-> l, bottom |-> b, right |-> r, top |-> t]
Matrix(a, b, c, d, e, f) == [a |-> a, b |-> b, c |-> c, d |-> d, e |-> e, f |-> f]
Identity == Matrix(1, 0, 0, 1, 0, 0)

\* (x, y) -> (a x + c y + e, b x + d y + f)
TransformX(m, x, y) == m.a * x + m.c * y + m.e
TransformY(m, x, y) == m.b * x + m.d * y + m.f

\* CFX_Matrix::TransformRect: bounding box of the four transformed corners.
TransformRect(m, r) ==
    LET x1 == TransformX(m, r.left, r.bottom)
        x2 == TransformX(m, r.left, r.top)
        x3 == TransformX(m, r.right, r.bottom)
        x4 == TransformX(m, r.right, r.top)
        y1 == TransformY(m, r.left, r.bottom)
        y2 == TransformY(m, r.left, r.top)
        y3 == TransformY(m, r.right, r.bottom)
        y4 == TransformY(m, r.right, r.top)
    IN Rect(Min4(x1, x2, x3, x4), Min4(y1, y2, y3, y4),
            Max4(x1, x2, x3, x4), Max4(y1, y2, y3, y4))

\* CFX_FloatRect::Normalize: swap so that left <= right and bottom <= top.
Normalize(r) ==
    Rect(Min2(r.left, r.right), Min2(r.bottom, r.top),
         Max2(r.left, r.right), Max2(r.bottom, r.top))

\* Open-interval intersection test.
Intersects(a, b) ==
    /\ a.right > b.left
    /\ a.left < b.right
    /\ a.top > b.bottom
    /\ a.bottom < b.top

IntersectsAny(box, rects) ==
    \E i \in 1..Len(rects) : Intersects(box, rects[i])

----------------------------------------------------------------------------
(* Fonts: the capability set consumed from CPDF_Font / CPDF_CIDFont.       *)
(* "F1" is a simple horizontal font, "V1" a vertical-writing CID font.     *)

NoFont == "none"
Fonts == {"F1", "V1"}
kInvalidCharCode == "sep"

AsCIDFont(font) == font = "V1"
IsVertWriting(font) == font = "V1"

\* Horizontal advance, in font units (thousandths of an em).
GetCharWidthF(font, code) == IF code = " " THEN 250 ELSE 600

\* Vertical advance of a CID, in font units (the default W1 is -1000).
GetVertWidth(font, code) == 0 - 1000

\* Vertical origin of a CID, in font units: (width / 2, default vy 880).
GetVertOrigin(font, code) == <<300, 880>>

\* Number of bytes the font's encoding uses for the code.
GetCharSize(font, code) == IF AsCIDFont(font) THEN 2 ELSE 1

\* Glyph bounding box in font units.
GetCharBBox(font, code) ==
    IF code = " " THEN Rect(0, 0, 250, 700) ELSE Rect(50, 0, 550, 700)

\* CPDF_Font::AppendChar: the encoding of one code, appended to a segment.
AppendChar(str, code) == Append(str, code)

----------------------------------------------------------------------------
(* Text objects.                                                           *)
(* to = [id, kind, active, font, fs, cs, ws, tm, items, dirty]; an item is *)
(* [code, adj]: a glyph code, or kInvalidCharCode with its TJ adjustment.  *)

Glyph(c) == [code |-> c, adj |-> 0]
Sep(k) == [code |-> kInvalidCharCode, adj |-> k]
IsSep(it) == it.code = kInvalidCharCode

CountItems(to) == Len(to.items)

\* Advance of one glyph in user space, as the text layout applies it.
LayoutAdvance(to, code) ==
    LET w == IF IsVertWriting(to.font) THEN GetVertWidth(to.font, code)
                                       ELSE GetCharWidthF(to.font, code)
        wsp == IF code = " " /\ (~AsCIDFont(to.font) \/ GetCharSize(to.font, " ") = 1)
               THEN to.ws ELSE 0
    IN w * Unit * to.fs + wsp + to.cs

\* CPDF_TextObject::CalcPositionData: position on the writing axis before
\* item i.  A separator moves the position back by adj * fs / 1000.
RECURSIVE CurPos(_, _)
CurPos(to, i) ==
    IF i <= 1 THEN 0
    ELSE LET prev == to.items[i - 1]
         IN CurPos(to, i - 1) +
            (IF IsSep(prev) THEN 0 - prev.adj * to.fs
                            ELSE LayoutAdvance(to, prev.code))

\* CPDF_TextObject::GetItemInfo: code and local origin of item i, the
\* vertical-origin shift already applied for vertical writing.
GetItemInfo(to, i) ==
    LET it == to.items[i]
        p == CurPos(to, i)
    IN IF IsSep(it) \/ ~IsVertWriting(to.font)
       THEN [char_code |-> it.code, x |-> p, y |-> 0]
       ELSE LET vo == GetVertOrigin(to.font, it.code)
            IN [char_code |-> it.code,
                x |-> 0 - vo[1] * Unit * to.fs,
                y |-> p - vo[2] * Unit * to.fs]

\* CPDF_TextObject::GetSeparatorAdjustment.
GetSeparatorAdjustment(to, i) == to.items[i].adj

\* CPDF_TextObject::SetSegments: strings[i] followed by kernings[i].
RECURSIVE SegmentsToItems(_, _, _)
SegmentsToItems(strings, kernings, i) ==
    IF i > Len(strings) THEN <<>>
    ELSE [j \in 1..Len(strings[i]) |-> Glyph(strings[i][j])]
         \o (IF i < Len(strings) THEN <<Sep(kernings[i])>> ELSE <<>>)
         \o SegmentsToItems(strings, kernings, i + 1)

SetSegments(to, strings, kernings) ==
    [to EXCEPT !.items = SegmentsToItems(strings, kernings, 1)]

----------------------------------------------------------------------------
(* Glyph metrics bridge *)

\* GlyphBBoxInPage: font bbox scaled by fs/1000, moved to the item origin,
\* through the text matrix the object has NOW, then through parent_to_page.
GlyphBBoxInPage(to, font, code, it, parent_to_page) ==
    LET r == GetCharBBox(font, code)
        fs == to.fs
        glyph_box == Rect(r.left * Unit * fs + it.x, r.bottom * Unit * fs + it.y,
                          r.right * Unit * fs + it.x, r.top * Unit * fs + it.y)
    IN TransformRect(parent_to_page, TransformRect(to.tm, glyph_box))

\* AdvanceThousandths: width (vertical width for a vertical CID font), plus
\* word space for an ASCII space of a one-byte encoding, plus char space.
AdvanceThousandths(to, font, code) ==
    LET w_th == IF AsCIDFont(font) /\ IsVertWriting(font)
                THEN GetVertWidth(font, code) * Unit
                ELSE GetCharWidthF(font, code) * Unit
        wsp == IF code = " " /\ (~AsCIDFont(font) \/ GetCharSize(font, " ") = 1)
               THEN to.ws \div to.fs ELSE 0
    IN w_th + wsp + (to.cs \div to.fs)

\* A rounding that drops the fraction.
TruncateThousandths(v) ==
    IF v >= 0 THEN v \div Unit
              ELSE 0 - ((0 - v) \div Unit)

\* RoundThousandths: nearest integer thousandth, halves away from zero
\* (the cast to int32_t truncates toward zero).
RoundThousandths(v) ==
    IF v >= 0 THEN (v + Half) \div Unit
              ELSE 0 - ((Half - v) \div Unit)

----------------------------------------------------------------------------
(* Text rewriter (four-argument engine) *)

\* RedactionState, with the locals of RedactTextObjectMulti that live across
\* loop iterations (any_kept, any_removed, the text matrix of the object).
\* kept and removed record the item indexes decided so far.
InitRedactionState(to) ==
    [strings |-> << <<>> >>, kernings |-> <<>>,
     kerning_accumulator |-> 0, has_explicit_kerning |-> FALSE,
     prev_x |-> 0, prev_y |-> 0, prev_glyph_code |-> 0,
     any_kept |-> FALSE, any_removed |-> FALSE,
     tm |-> to.tm, kept |-> <<>>, removed |-> <<>>]

ResetBetweenRuns(s) ==
    [s EXCEPT !.kerning_accumulator = 0, !.has_explicit_kerning = FALSE]

AppendKeptGlyph(s, item) ==
    [s EXCEPT !.strings[Len(s.strings)] = AppendChar(@, item.char_code),
              !.prev_x = item.x, !.prev_y = item.y,
              !.prev_glyph_code = item.char_code]

\* FlushSegment that pushes the kerning and forgets to open the new run.
FlushSegmentKeepRun(s, kerning_mth) ==
    LET rounded == RoundThousandths(kerning_mth)
    IN IF rounded = 0 THEN s
       ELSE [s EXCEPT !.kernings = Append(@, rounded * Unit)]

\* FlushSegment that pushes the kerning with its sign inverted.
FlushSegmentInverted(s, kerning_mth) ==
    LET rounded == RoundThousandths(kerning_mth)
    IN IF rounded = 0 THEN s
       ELSE [s EXCEPT !.kernings = Append(@, (0 - rounded) * Unit),
                      !.strings = Append(@, <<>>)]

\* FlushSegment that pushes a kerning that rounds to zero as well.
FlushSegmentZeroToo(s, kerning_mth) ==
    [s EXCEPT !.kernings = Append(@, RoundThousandths(kerning_mth) * Unit),
              !.strings = Append(@, <<>>)]

\* FlushSegment: push the rounded kerning and open a new empty run, unless
\* the kerning rounds to zero.
FlushSegment(s, kerning_mth) ==
    LET rounded == RoundThousandths(kerning_mth)
    IN IF rounded = 0 THEN s
       ELSE [s EXCEPT !.kernings = Append(@, rounded * Unit),
                      !.strings = Append(@, <<>>)]

\* Deadband applied to a kerning before it is flushed.
Deadband(k) == IF Abs(k) < kTJDeadband THEN 0 ELSE k

\* LeadingShift that moves along the text Y axis.
LeadingShiftAlongY(tm, leading_offset_user) ==
    IF leading_offset_user # 0
    THEN [tm EXCEPT !.e = @ + leading_offset_user * tm.c,
                    !.f = @ + leading_offset_user * tm.d]
    ELSE tm

\* The text-matrix translation at the first kept glyph.
LeadingShift(tm, leading_offset_user) ==
    IF leading_offset_user # 0
    THEN [tm EXCEPT !.e = @ + leading_offset_user * tm.a,
                    !.f = @ + leading_offset_user * tm.b]
    ELSE tm

\* SynthesizedKerning with the operands of the subtraction swapped.
SynthesizedKerningSwapped(to, font, s, it) ==
    LET delta_user == IF IsVertWriting(font) THEN it.y - s.prev_y ELSE it.x - s.prev_x
        delta_mth == delta_user \div to.fs
        nominal_advance_mth == AdvanceThousandths(to, font, s.prev_glyph_code)
    IN delta_mth - nominal_advance_mth

\* The inter-run kerning synthesized from the origins of two kept glyphs.
SynthesizedKerning(to, font, s, it) ==
    LET delta_user == IF IsVertWriting(font) THEN it.y - s.prev_y ELSE it.x - s.prev_x
        delta_mth == delta_user \div to.fs
        nominal_advance_mth == AdvanceThousandths(to, font, s.prev_glyph_code)
    IN nominal_advance_mth - delta_mth

\* One iteration of the item loop.
RedactItem(to, page_rects, parent_to_page, s, i) ==
    LET font == to.font
        cur == [to EXCEPT !.tm = s.tm]
        it == GetItemInfo(cur, i)
    IN IF it.char_code = kInvalidCharCode
       THEN [s EXCEPT !.kerning_accumulator = @ + GetSeparatorAdjustment(cur, i),
                      !.has_explicit_kerning = TRUE]
       ELSE IF IntersectsAny(GlyphBBoxInPage(cur, font, it.char_code, it, parent_to_page),
                             page_rects)
       THEN [s EXCEPT !.kerning_accumulator = @ - AdvanceThousandths(cur, font, it.char_code),
                      !.any_removed = TRUE,
                      !.removed = Append(@, i)]
       ELSE LET s1 ==
                  IF ~s.any_kept
                  THEN IF s.kerning_accumulator # 0
                       THEN [s EXCEPT !.tm = LeadingShift(@, (0 - s.kerning_accumulator) * to.fs),
                                      !.kerning_accumulator = 0,
                                      !.has_explicit_kerning = FALSE]
                       ELSE [s EXCEPT !.tm = LeadingShift(@,
                                          IF IsVertWriting(font) THEN it.y ELSE it.x)]
                  ELSE IF s.has_explicit_kerning
                       THEN FlushSegment(s, Deadband(s.kerning_accumulator))
                       ELSE FlushSegment(s, Deadband(SynthesizedKerning(cur, font, s, it)))
                s2 == ResetBetweenRuns(AppendKeptGlyph(s1, it))
            IN [s2 EXCEPT !.any_kept = TRUE, !.kept = Append(@, i)]

RECURSIVE RedactItems(_, _, _, _, _)
RedactItems(to, page_rects, parent_to_page, s, i) ==
    IF i > CountItems(to) THEN s
    ELSE RedactItems(to, page_rects, parent_to_page,
                     RedactItem(to, page_rects, parent_to_page, s, i), i + 1)

\* The tail of the rewriter: drop a dangling empty run with its kerning.
DropDangling(s) ==
    IF Len(s.strings) > 0 /\ s.strings[Len(s.strings)] = <<>>
    THEN [s EXCEPT !.strings = SubSeq(@, 1, Len(@) - 1),
                   !.kernings = IF Len(@) > 0 THEN SubSeq(@, 1, Len(@) - 1) ELSE @]
    ELSE s

\* RedactTextObjectMulti.  The result carries the outcome, the object as the
\* call leaves it, whether SetSegments / SetDirty / SetTextMatrix ran
\* (installed), the vectors handed to SetSegments, whether the CHECK before
\* SetSegments held, and the item indexes kept and removed.
RedactTextObjectMulti(to, page_rects, parent_to_page) ==
    IF to.font = NoFont
    THEN [outcome |-> "kUnchanged", to |-> to, installed |-> FALSE,
          strings |-> <<>>, kernings |-> <<>>, check_ok |-> TRUE,
          kept |-> <<>>, removed |-> <<>>]
    ELSE LET s == RedactItems(to, page_rects, parent_to_page, InitRedactionState(to), 1)
             shifted == [to EXCEPT !.tm = s.tm]
         IN IF ~s.any_kept
            THEN [outcome |-> IF s.any_removed THEN "kRemovedAll" ELSE "kUnchanged",
                  to |-> shifted, installed |-> FALSE,
                  strings |-> <<>>, kernings |-> <<>>, check_ok |-> TRUE,
                  kept |-> s.kept, removed |-> s.removed]
            ELSE LET d == DropDangling(s)
                     ok == Len(d.kernings) + 1 = Len(d.strings)
                 IN [outcome |-> IF s.any_removed THEN "kModified" ELSE "kUnchanged",
                     to |-> IF ok
                            THEN [SetSegments(shifted, d.strings, d.kernings)
                                     EXCEPT !.dirty = TRUE]
                            ELSE shifted,
                     installed |-> ok,
                     strings |-> d.strings, kernings |-> d.kernings, check_ok |-> ok,
                     kept |-> s.kept, removed |-> s.removed]

----------------------------------------------------------------------------
(* Text rewriter (three-argument engine, cpdf_text_redactor.cpp) *)

\* One iteration of the item loop: run is the current kept run, pending_tj
\* the pool of original TJ numbers and removed advances.
RedactItem3(to, page_rects, parent_to_page, s, i) ==
    LET font == to.font
        it == GetItemInfo(to, i)
    IN IF it.char_code = kInvalidCharCode
       THEN [s EXCEPT !.pending_tj = @ + GetSeparatorAdjustment(to, i)]
       ELSE IF IntersectsAny(GlyphBBoxInPage(to, font, it.char_code, it, parent_to_page),
                             page_rects)
       THEN [s EXCEPT !.any_removed = TRUE,
                      !.pending_tj = @ - AdvanceThousandths(to, font, it.char_code),
                      !.removed = Append(@, i)]
       ELSE LET s1 ==
                  IF s.run # <<>> /\ s.pending_tj # 0
                  THEN [s EXCEPT !.strings = Append(@, s.run),
                                 !.kernings = Append(@, s.pending_tj),
                                 !.run = <<>>,
                                 !.pending_tj = 0]
                  ELSE IF s.run = <<>> /\ s.pending_tj # 0
                  THEN [s EXCEPT !.strings = Append(@, <<>>),
                                 !.kernings = Append(@, s.pending_tj),
                                 !.pending_tj = 0]
                  ELSE s
            IN [s1 EXCEPT !.run = AppendChar(@, it.char_code),
                          !.any_kept = TRUE,
                          !.kept = Append(@, i)]

RECURSIVE RedactItems3(_, _, _, _, _)
RedactItems3(to, page_rects, parent_to_page, s, i) ==
    IF i > CountItems(to) THEN s
    ELSE RedactItems3(to, page_rects, parent_to_page,
                      RedactItem3(to, page_rects, parent_to_page, s, i), i + 1)

RedactTextObjectMulti3(to, page_rects, parent_to_page) ==
    IF to.font = NoFont
    THEN [outcome |-> "kUnchanged", to |-> to, installed |-> FALSE,
          strings |-> <<>>, kernings |-> <<>>, check_ok |-> TRUE,
          kept |-> <<>>, removed |-> <<>>]
    ELSE LET s0 == [run |-> <<>>, strings |-> <<>>, kernings |-> <<>>, pending_tj |-> 0,
                    any_kept |-> FALSE, any_removed |-> FALSE,
                    kept |-> <<>>, removed |-> <<>>]
             s == RedactItems3(to, page_rects, parent_to_page, s0, 1)
             strings == IF s.run # <<>> THEN Append(s.strings, s.run) ELSE s.strings
         IN IF ~s.any_kept
            THEN [outcome |-> IF s.any_removed THEN "kRemovedAll" ELSE "kUnchanged",
                  to |-> to, installed |-> FALSE,
                  strings |-> <<>>, kernings |-> <<>>, check_ok |-> TRUE,
                  kept |-> s.kept, removed |-> s.removed]
            ELSE LET ok == Len(s.kernings) + 1 = Len(strings)
                 IN [outcome |-> IF s.any_removed THEN "kModified" ELSE "kUnchanged",
                     to |-> IF ok
                            THEN [SetSegments(to, strings, s.kernings) EXCEPT !.dirty = TRUE]
                            ELSE to,
                     installed |-> ok,
                     strings |-> strings, kernings |-> s.kernings, check_ok |-> ok,
                     kept |-> s.kept, removed |-> s.removed]


----------------------------------------------------------------------------
(* Matrices of placements *)

\* CFX_Matrix::operator*: l * r applies l first, then r.
MatMul(l, r) ==
    Matrix(l.a * r.a + l.b * r.c, l.a * r.b + l.b * r.d,
           l.c * r.a + l.d * r.c, l.c * r.b + l.d * r.d,
           l.e * r.a + l.f * r.c + r.e,
           l.e * r.b + l.f * r.d + r.f)

\* The unit square, in user-space fixed point.
UnitSquare == Rect(0, 0, User, User)

Sgn(x) == IF x < 0 THEN 0 - 1 ELSE 1
Clamp(x, lo, hi) == Max2(lo, Min2(x, hi))
\* floor and ceiling of n / d for d > 0.
FloorDiv(n, d) == n \div d
CeilDiv(n, d) == 0 - ((0 - n) \div d)

----------------------------------------------------------------------------
(* Image rewriter.                                                         *)
(* An image is [W, H, dib, smask, dict]: dib is the decoded pixel plane    *)
(* LoadDIBBase yields ([bpp, is_mask, has_alpha, palette, scan], scan the  *)
(* top-down scanlines as byte lists, or NoDIB), smask the bytes of the     *)
(* soft-mask stream of the image dictionary (or NoSMask).  Placements of   *)
(* images are axis-aligned (b = c = 0), so the inverse of image_to_page is *)
(* p -> (p - e) / a; image-space coordinates are kept as numerators over   *)
(* the denominators dx = |a| * User and dy = |d| * User.                   *)

NoImage == [null |-> "image"]
NoDIB == [null |-> "dib"]
\* No soft-mask stream (the bytes of a stream are 0..255), and no /SMask entry
\* in a dictionary.
NoSMask == <<0 - 1>>
NoSMaskEntry == [null |-> "smask"]

\* PageRectsToImageGrid: page rects to the sample grid, normalized, clamped
\* to [0, W] x [0, H], degenerate results dropped.
ImageGridRect(image_to_page, img_w, img_h, pr) ==
    LET dx == Abs(image_to_page.a) * User
        dy == Abs(image_to_page.d) * User
        ux1 == Sgn(image_to_page.a) * (pr.left - image_to_page.e) * img_w
        ux2 == Sgn(image_to_page.a) * (pr.right - image_to_page.e) * img_w
        uy1 == Sgn(image_to_page.d) * (pr.bottom - image_to_page.f) * img_h
        uy2 == Sgn(image_to_page.d) * (pr.top - image_to_page.f) * img_h
    IN [left |-> Clamp(Min2(ux1, ux2), 0, img_w * dx),
        right |-> Clamp(Max2(ux1, ux2), 0, img_w * dx),
        bottom |-> Clamp(Min2(uy1, uy2), 0, img_h * dy),
        top |-> Clamp(Max2(uy1, uy2), 0, img_h * dy),
        dx |-> dx, dy |-> dy]

PageRectsToImageGrid(image_to_page, img_w, img_h, page_rects) ==
    IF img_w <= 0 \/ img_h <= 0 \/ page_rects = <<>> THEN <<>>
    ELSE LET all == [i \in 1..Len(page_rects) |->
                        ImageGridRect(image_to_page, img_w, img_h, page_rects[i])]
             Keep(ir) == ir.right > ir.left /\ ir.top > ir.bottom
         IN SelectSeq(all, Keep)

\* The integer pixel box of an image-space rect: floor of left and bottom,
\* ceiling of right and top, clamped to the image.
IntegerBox(r, W, H) ==
    [x0 |-> Max2(0, Min2(W, FloorDiv(r.left, r.dx))),
     x1 |-> Max2(0, Min2(W, CeilDiv(r.right, r.dx))),
     y0 |-> Max2(0, Min2(H, FloorDiv(r.bottom, r.dy))),
     y1 |-> Max2(0, Min2(H, CeilDiv(r.top, r.dy)))]

IntegerBoxes(img_rects, W, H) ==
    LET all == [i \in 1..Len(img_rects) |-> IntegerBox(img_rects[i], W, H)]
        Keep(b) == b.x1 > b.x0 /\ b.y1 > b.y0
    IN SelectSeq(all, Keep)

\* The per-pixel test with closed intervals.
PixelRedactedClosed(x, y_img, img_rects) ==
    \E i \in 1..Len(img_rects) :
        LET r == img_rects[i]
        IN /\ (x + 1) * r.dx >= r.left
           /\ x * r.dx <= r.right
           /\ (y_img + 1) * r.dy >= r.bottom
           /\ y_img * r.dy <= r.top

\* The per-pixel test: the unit square of pixel (x, y_img), bottom-up,
\* against the float image rects, open intervals.
PixelRedacted(x, y_img, img_rects) ==
    \E i \in 1..Len(img_rects) :
        LET r == img_rects[i]
        IN /\ (x + 1) * r.dx > r.left
           /\ x * r.dx < r.right
           /\ (y_img + 1) * r.dy > r.bottom
           /\ y_img * r.dy < r.top

\* A scanline index read as a bottom-up index.
BottomUpUnflipped(H, row_top) == row_top

\* The bottom-up pixel row of the top-down scanline row_top.
BottomUp(H, row_top) == H - 1 - row_top

\* Source format flags of a decoded plane.
IsGray8(dib) == dib.bpp = 8 /\ ~dib.is_mask
IsRgb24(dib) == dib.bpp = 24
IsBgra32(dib) == dib.bpp = 32 /\ dib.has_alpha
IsBgrx32(dib) == dib.bpp = 32 /\ ~dib.has_alpha
IsIndexed8(dib) == IsGray8(dib) /\ dib.palette # <<>>
PaletteHasAlpha(dib) ==
    IsIndexed8(dib) /\ \E i \in 1..Len(dib.palette) : dib.palette[i].a # 255
SupportedFormat(dib) == IsGray8(dib) \/ IsRgb24(dib) \/ IsBgra32(dib) \/ IsBgrx32(dib)

\* A process_alpha that overlooks the alpha of a palette.
ProcessAlphaNoPalette(image) == IsBgra32(image.dib) \/ image.smask # NoSMask

ProcessAlpha(image) ==
    IsBgra32(image.dib) \/ image.smask # NoSMask \/ PaletteHasAlpha(image.dib)

\* Bytes of the source scanline a converted pixel reads (0-based offsets).
SourceOffsets(dib, x) ==
    IF IsIndexed8(dib) \/ IsGray8(dib) THEN {x}
    ELSE IF IsRgb24(dib) THEN {3 * x, 3 * x + 1, 3 * x + 2}
    ELSE IF IsBgra32(dib) THEN {4 * x, 4 * x + 1, 4 * x + 2, 4 * x + 3}
    ELSE {4 * x, 4 * x + 1, 4 * x + 2}

\* A converted pixel reads past the end of its scanline, or past the palette.
ReadsOutOfBounds(dib, sline, x) ==
    \/ \E o \in SourceOffsets(dib, x) : o + 1 > Len(sline)
    \/ IsIndexed8(dib) /\ x + 1 <= Len(sline) /\ sline[x + 1] + 1 > Len(dib.palette)

\* The RGB triple of a pixel that is not redacted.
ConvertedPixel(dib, sline, x) ==
    IF IsIndexed8(dib)
    THEN LET argb == dib.palette[sline[x + 1] + 1] IN <<argb.r, argb.g, argb.b>>
    ELSE IF IsGray8(dib) THEN <<sline[x + 1], sline[x + 1], sline[x + 1]>>
    ELSE IF IsRgb24(dib) THEN <<sline[3 * x + 3], sline[3 * x + 2], sline[3 * x + 1]>>
    ELSE <<sline[4 * x + 3], sline[4 * x + 2], sline[4 * x + 1]>>

\* The alpha plane before the pixel loop: the soft-mask bytes padded with
\* 0xFF, or all 0xFF.
InitialAlpha(image, W, H) ==
    IF image.smask # NoSMask /\ ~IsBgra32(image.dib)
    THEN [k \in 1..(W * H) |-> IF k <= Len(image.smask) THEN image.smask[k] ELSE 255]
    ELSE [k \in 1..(W * H) |-> 255]

\* The alpha byte of pixel x of scanline row_top after the pixel loop and
\* the final forcing of the integer boxes.
AlphaByte(image, W, H, img_rects, boxes, fill_rows, row_top, x) ==
    LET dib == image.dib
        y_img == BottomUp(H, row_top)
        sline == dib.scan[row_top + 1]
        initial == InitialAlpha(image, W, H)[row_top * W + x + 1]
        looped ==
            IF row_top \in fill_rows \/ PixelRedacted(x, y_img, img_rects) THEN 255
            ELSE IF IsIndexed8(dib)
            THEN IF image.smask = NoSMask /\ ~IsBgra32(dib) /\ PaletteHasAlpha(dib)
                 THEN dib.palette[sline[x + 1] + 1].a ELSE initial
            ELSE IF IsGray8(dib) \/ IsRgb24(dib) THEN initial
            ELSE IF IsBgra32(dib) THEN sline[4 * x + 4] ELSE initial
    IN IF \E i \in 1..Len(boxes) :
              /\ boxes[i].y0 <= y_img /\ y_img < boxes[i].y1
              /\ boxes[i].x0 <= x /\ x < boxes[i].x1
       THEN 255 ELSE looped

\* OverwriteStreamInPlace with decoded RGB data, as the next LoadDIBBase
\* sees it: a 24-bit plane in BGR memory order, the soft mask of the new
\* dictionary.
OverwriteStreamInPlace(image, out_rgb, out_a, ndict) ==
    [image EXCEPT
        !.dib = [bpp |-> 24, is_mask |-> FALSE, has_alpha |-> FALSE, palette |-> <<>>,
                 scan |-> [r \in 1..Len(out_rgb) |->
                              [k \in 1..Len(out_rgb[r]) |->
                                  out_rgb[r][3 * ((k - 1) \div 3) + 3 - ((k - 1) % 3)]]]],
        !.smask = out_a,
        !.dict = ndict]

\* RedactImageObject.  The result: changed (the return value), the image
\* object as the call leaves it, crashed (a read past a scanline or the
\* palette), and the decoded output (out_rgb rows, out_a or NoSMask).
ImageUnchanged(iobj) ==
    [changed |-> FALSE, iobj |-> iobj, crashed |-> FALSE, new_objects |-> 0]

RedactImageObject(iobj, page_rects, parent_to_page, fill_black) ==
    LET image == iobj.image IN
    IF image = NoImage THEN ImageUnchanged(iobj)
    ELSE IF image.W <= 0 \/ image.H <= 0 THEN ImageUnchanged(iobj)
    ELSE
    LET W == image.W
        H == image.H
        img_to_page == MatMul(parent_to_page, iobj.matrix)
        img_bbox_page == TransformRect(img_to_page, UnitSquare)
        touches == \E i \in 1..Len(page_rects) : Intersects(img_bbox_page, page_rects[i])
    IN
    IF ~touches THEN ImageUnchanged(iobj)
    ELSE IF image.dib = NoDIB THEN ImageUnchanged(iobj)
    ELSE IF ~SupportedFormat(image.dib) THEN ImageUnchanged(iobj)
    ELSE
    LET dib == image.dib
        img_rects == PageRectsToImageGrid(img_to_page, W, H, page_rects)
        boxes == IntegerBoxes(img_rects, W, H)
        fill_val == IF fill_black THEN 0 ELSE 255
        process_alpha == ProcessAlpha(image)
        fill_rows == { r \in 0..(H - 1) : dib.scan[r + 1] = <<>> }
        Red(r, x) == r \in fill_rows \/ PixelRedacted(x, BottomUp(H, r), img_rects)
        crashed == \E r \in 0..(H - 1), x \in 0..(W - 1) :
                       ~Red(r, x) /\ ReadsOutOfBounds(dib, dib.scan[r + 1], x)
        total_redacted_px == Cardinality({ q \in (0..(H - 1)) \X (0..(W - 1)) : Red(q[1], q[2]) })
        out_rgb == [r \in 1..H |-> [k \in 1..(3 * W) |->
                       IF Red(r - 1, (k - 1) \div 3) THEN fill_val
                       ELSE ConvertedPixel(dib, dib.scan[r], (k - 1) \div 3)[((k - 1) % 3) + 1]]]
        out_a == IF process_alpha
                 THEN [k \in 1..(W * H) |->
                          AlphaByte(image, W, H, img_rects, boxes, fill_rows,
                                    (k - 1) \div W, (k - 1) % W)]
                 ELSE NoSMask
        ndict == [Type |-> "XObject", Subtype |-> "Image", Width |-> W, Height |-> H,
                  ColorSpace |-> "DeviceRGB", BitsPerComponent |-> 8,
                  SMask |-> IF process_alpha
                            THEN [Type |-> "XObject", Subtype |-> "Image",
                                  Width |-> W, Height |-> H,
                                  ColorSpace |-> "DeviceGray", BitsPerComponent |-> 8]
                            ELSE NoSMaskEntry]
    IN
    IF img_rects = <<>> \/ boxes = <<>> THEN ImageUnchanged(iobj)
    ELSE IF crashed THEN [ImageUnchanged(iobj) EXCEPT !.crashed = TRUE]
    ELSE IF total_redacted_px = 0 THEN ImageUnchanged(iobj)
    ELSE [changed |-> TRUE,
          iobj |-> [iobj EXCEPT !.image = OverwriteStreamInPlace(image, out_rgb, out_a, ndict),
                                !.dirty = TRUE],
          crashed |-> FALSE,
          new_objects |-> IF process_alpha THEN 1 ELSE 0]


----------------------------------------------------------------------------
(* Holders.                                                                *)
(* The store is [holders, next_id, doc_objects]: holders maps a holder id  *)
(* (PageId for the page, the others for forms) to its list of page         *)
(* objects, in paint order; next_id is the identity the next created page  *)
(* object gets; doc_objects counts the indirect objects added to the       *)
(* document.  A page object is a record with id, kind, active and the      *)
(* fields of its kind:                                                     *)
(*   text   font, fs, cs, ws, tm, items, dirty                             *)
(*   image  matrix, image, dirty                                           *)
(*   path   matrix, bbox (path().GetBoundingBox()), stroke, filltype, dirty*)
(*   form   form_matrix, form (the holder id of the CPDF_Form the object   *)
(*          owns, or NoForm), stream (the form XObject it was parsed from) *)

PageId == "page"
NoPage == "null"
NoForm == "null"

\* CPDF_PageObjectHolder::RemovePageObject.
RemovePageObject(objs, id) ==
    LET Other(o) == o.id # id IN SelectSeq(objs, Other)

\* CPDF_Page::AppendPageObject.
AppendPageObject(store, obj) ==
    [store EXCEPT !.holders[PageId] = Append(@, [obj EXCEPT !.id = store.next_id]),
                  !.next_id = @ + 1]

\* One overlay path: not stroked, winding fill, the rect as its path,
\* identity matrix, dirty.
OverlayPath(r) ==
    [id |-> 0, kind |-> "path", active |-> TRUE, matrix |-> Identity, bbox |-> r,
     stroke |-> FALSE, filltype |-> "kWinding", dirty |-> TRUE]

\* AddBlackOverlayPaths that stops after the first rect.
AddBlackOverlayPathsOnce(store, page, rects_page_space) ==
    IF page = NoPage \/ rects_page_space = <<>> THEN store
    ELSE AppendPageObject(store, OverlayPath(Head(rects_page_space)))

\* AddBlackOverlayPaths: one path per rect, appended in order.
RECURSIVE AddBlackOverlayPaths(_, _, _)
AddBlackOverlayPaths(store, page, rects_page_space) ==
    IF page = NoPage \/ rects_page_space = <<>> THEN store
    ELSE AddBlackOverlayPaths(AppendPageObject(store, OverlayPath(Head(rects_page_space))),
                              page, Tail(rects_page_space))

\* A containment test with strict inequalities.
PathStrictlyInside(path, page_rects, to_page) ==
    LET path_bbox_page ==
            Normalize(TransformRect(MatMul(to_page, path.matrix), path.bbox))
    IN \E i \in 1..Len(page_rects) :
          /\ path_bbox_page.left > page_rects[i].left
          /\ path_bbox_page.right < page_rects[i].right
          /\ path_bbox_page.bottom > page_rects[i].bottom
          /\ path_bbox_page.top < page_rects[i].top

\* The path branch of RedactHolder: the local bbox through to_page * matrix,
\* normalized, is inside some rect with closed inequalities.
PathFullyInside(path, page_rects, to_page) ==
    LET total_transform == MatMul(to_page, path.matrix)
        path_bbox_page == Normalize(TransformRect(total_transform, path.bbox))
    IN \E i \in 1..Len(page_rects) :
          /\ path_bbox_page.left >= page_rects[i].left
          /\ path_bbox_page.right <= page_rects[i].right
          /\ path_bbox_page.bottom >= page_rects[i].bottom
          /\ path_bbox_page.top <= page_rects[i].top

SetObject(store, h, i, obj) == [store EXCEPT !.holders[h][i] = obj]

\* RedactHolder.  w is the state of one invocation: store, changed,
\* to_remove (ids, in scheduling order), log (the events of the call so
\* far) and crashed (a failed CHECK or an out-of-bounds read).
\* Events: visit (an active object is dispatched), remove, generate, and
\* append (an overlay path is appended to the page).
Visit(h, id, what) == [ev |-> "visit", holder |-> h, id |-> id, what |-> what]
Remove(h, id) == [ev |-> "remove", holder |-> h, id |-> id, what |-> "removed"]
Generate(h) == [ev |-> "generate", holder |-> h, id |-> 0, what |-> "GenerateContent"]
Appended(h, id) == [ev |-> "append", holder |-> h, id |-> id, what |-> "overlay"]

RECURSIVE RedactHolder(_, _, _, _, _, _, _)
RECURSIVE WalkHolder(_, _, _, _, _, _, _)
RECURSIVE RemoveScheduled(_, _, _)


\* The text branch of the loop, out the outcome of the rewriter.
WalkText(w, h, i, po, out) ==
    LET w1 == [w EXCEPT !.store = SetObject(@, h, i, out.to),
                        !.log = Append(@, Visit(h, po.id, out.outcome)),
                        !.crashed = @ \/ ~out.check_ok]
    IN IF out.outcome = "kRemovedAll"
       THEN [w1 EXCEPT !.to_remove = Append(@, po.id), !.changed = TRUE]
       ELSE IF out.outcome = "kModified"
       THEN [w1 EXCEPT !.changed = TRUE]
       ELSE w1

\* The image branch, out the result of RedactImageObject.
WalkImage(w, h, i, po, out) ==
    [w EXCEPT !.store = [SetObject(@, h, i, out.iobj)
                            EXCEPT !.doc_objects = @ + out.new_objects],
              !.log = Append(@, Visit(h, po.id,
                          IF out.changed THEN "overwritten" ELSE "untouched")),
              !.changed = @ \/ out.changed,
              !.crashed = @ \/ out.crashed]

\* A path branch that removes a contained path at once, during the walk.
WalkPathRemoveNow(w, h, po, page_rects, to_page) ==
    IF PathFullyInside(po, page_rects, to_page)
    THEN [w EXCEPT !.store.holders[h] = RemovePageObject(@, po.id), !.changed = TRUE,
                   !.log = Append(Append(@, Visit(h, po.id, "scheduled")), Remove(h, po.id))]
    ELSE [w EXCEPT !.log = Append(@, Visit(h, po.id, "untouched"))]

\* The path branch.
WalkPath(w, h, po, page_rects, to_page) ==
    IF PathFullyInside(po, page_rects, to_page)
    THEN [w EXCEPT !.to_remove = Append(@, po.id), !.changed = TRUE,
                   !.log = Append(@, Visit(h, po.id, "scheduled"))]
    ELSE [w EXCEPT !.log = Append(@, Visit(h, po.id, "untouched"))]

\* A form branch that regenerates the form whatever the traversal reports.
WalkFormAlways(w, po, inner) ==
    [w EXCEPT !.store = inner.store,
              !.log = Append(inner.log, Generate(po.form)),
              !.changed = @ \/ inner.changed,
              !.crashed = @ \/ inner.crashed]

\* A form branch that regenerates a changed form without reporting the
\* change to the holder around it.
WalkFormSilent(w, po, inner) ==
    [w EXCEPT !.store = inner.store,
              !.log = IF inner.changed THEN Append(inner.log, Generate(po.form))
                      ELSE inner.log,
              !.crashed = @ \/ inner.crashed]

\* The form branch, inner the result of the nested RedactHolder.
WalkForm(w, po, inner) ==
    IF inner.changed
    THEN [w EXCEPT !.store = inner.store,
                   !.log = Append(inner.log, Generate(po.form)),
                   !.changed = TRUE,
                   !.crashed = @ \/ inner.crashed]
    ELSE [w EXCEPT !.store = inner.store,
                   !.log = inner.log,
                   !.crashed = @ \/ inner.crashed]

\* A loop body that dispatches inactive objects like active ones.
WalkObjectInactiveToo(w, h, i, po, page_rects, to_page, recurse_forms, fill_black) ==
    IF po.kind = "text"
    THEN WalkText(w, h, i, po, RedactTextObjectMulti(po, page_rects, to_page))
    ELSE IF po.kind = "image"
    THEN WalkImage(w, h, i, po, RedactImageObject(po, page_rects, to_page, fill_black))
    ELSE IF po.kind = "path"
    THEN WalkPath(w, h, po, page_rects, to_page)
    ELSE w

\* The body of the loop over the holder, for the object po at index i.
WalkObject(w, h, i, po, page_rects, to_page, recurse_forms, fill_black) ==
    IF ~po.active THEN w
    ELSE IF po.kind = "text"
    THEN WalkText(w, h, i, po, RedactTextObjectMulti(po, page_rects, to_page))
    ELSE IF po.kind = "image"
    THEN WalkImage(w, h, i, po, RedactImageObject(po, page_rects, to_page, fill_black))
    ELSE IF po.kind = "path"
    THEN WalkPath(w, h, po, page_rects, to_page)
    ELSE IF recurse_forms /\ po.kind = "form"
    THEN IF po.form = NoForm THEN w
         ELSE WalkForm(w, po,
                  RedactHolder(w.store, Append(w.log, Visit(h, po.id, "form")),
                               po.form, page_rects, MatMul(to_page, po.form_matrix),
                               TRUE, fill_black))
    ELSE w

WalkHolder(w, h, i, page_rects, to_page, recurse_forms, fill_black) ==
    IF i > Len(w.store.holders[h]) THEN w
    ELSE WalkHolder(WalkObject(w, h, i, w.store.holders[h][i], page_rects, to_page,
                               recurse_forms, fill_black),
                    h, i + 1, page_rects, to_page, recurse_forms, fill_black)

\* A removal loop that leaves every scheduled object in the holder.
RemoveScheduledNever(w, h, k) == w

\* The loop that physically removes the scheduled objects.
RemoveScheduled(w, h, k) ==
    IF k > Len(w.to_remove) THEN w
    ELSE RemoveScheduled(
             [w EXCEPT !.store.holders[h] = RemovePageObject(@, w.to_remove[k]),
                       !.log = Append(@, Remove(h, w.to_remove[k]))],
             h, k + 1)

\* The end of RedactHolder, w the state after the loop over the holder.
RemoveAndReturn(w, h) ==
    IF w.to_remove # <<>>
    THEN [RemoveScheduled(w, h, 1) EXCEPT !.changed = TRUE]
    ELSE w

RedactHolder(store, log, h, page_rects, to_page, recurse_forms, fill_black) ==
    RemoveAndReturn(
        WalkHolder([store |-> store, changed |-> FALSE, to_remove |-> <<>>,
                    log |-> log, crashed |-> FALSE],
                   h, 1, page_rects, to_page, recurse_forms, fill_black),
        h)

\* RedactHolder of cpdf_text_redactor.cpp: text objects and forms only.
RECURSIVE RedactHolder3(_, _, _, _, _, _)
RECURSIVE WalkHolder3(_, _, _, _, _, _)
WalkHolder3(w, h, i, page_rects, to_page, recurse_forms) ==
    IF i > Len(w.store.holders[h]) THEN w
    ELSE LET po == w.store.holders[h][i]
         IN WalkHolder3(
                IF ~po.active THEN w
                ELSE IF po.kind = "text"
                THEN WalkText(w, h, i, po, RedactTextObjectMulti3(po, page_rects, to_page))
                ELSE IF recurse_forms /\ po.kind = "form" /\ po.form # NoForm
                THEN WalkForm(w, po,
                         RedactHolder3(w.store, Append(w.log, Visit(h, po.id, "form")),
                                       po.form, page_rects,
                                       MatMul(to_page, po.form_matrix), TRUE))
                ELSE w,
                h, i + 1, page_rects, to_page, recurse_forms)

RedactHolder3(store, log, h, page_rects, to_page, recurse_forms) ==
    RemoveAndReturn(
        WalkHolder3([store |-> store, changed |-> FALSE, to_remove |-> <<>>,
                     log |-> log, crashed |-> FALSE],
                    h, 1, page_rects, to_page, recurse_forms),
        h)

----------------------------------------------------------------------------
(* Entry points.  The result: ret (the return value), store, log, crashed. *)

NormalizeAll(rects) == [i \in 1..Len(rects) |-> Normalize(rects[i])]

\* The part the two entry points share, from the normalized rects on; w is
\* the result of RedactHolder on the page.
OverlayAndReturn(w, page, rects, draw_black_boxes) ==
    [ret |-> w.changed \/ draw_black_boxes,
     store |-> IF draw_black_boxes THEN AddBlackOverlayPaths(w.store, page, rects)
                                   ELSE w.store,
     log |-> IF draw_black_boxes
             THEN w.log \o [j \in 1..Len(rects) |-> Appended(page, w.store.next_id + j - 1)]
             ELSE w.log,
     crashed |-> w.crashed, changed |-> w.changed]

RedactEngine(store, page, rects, recurse_forms, draw_black_boxes) ==
    OverlayAndReturn(
        RedactHolder(store, <<>>, page, rects, Identity, recurse_forms, draw_black_boxes),
        page, rects, draw_black_boxes)

RedactTextInRect(store, page, page_space_rect_in, recurse_forms, draw_black_boxes) ==
    IF page = NoPage
    THEN [ret |-> FALSE, store |-> store, log |-> <<>>, crashed |-> FALSE, changed |-> FALSE]
    ELSE RedactEngine(store, page, <<Normalize(page_space_rect_in)>>,
                      recurse_forms, draw_black_boxes)

\* RedactTextInRects without the test for an empty list.
RedactTextInRectsAnyList(store, page, page_space_rects_in, recurse_forms, draw_black_boxes) ==
    IF page = NoPage
    THEN [ret |-> FALSE, store |-> store, log |-> <<>>, crashed |-> FALSE, changed |-> FALSE]
    ELSE RedactEngine(store, page, NormalizeAll(page_space_rects_in),
                      recurse_forms, draw_black_boxes)

RedactTextInRects(store, page, page_space_rects_in, recurse_forms, draw_black_boxes) ==
    IF page = NoPage \/ page_space_rects_in = <<>>
    THEN [ret |-> FALSE, store |-> store, log |-> <<>>, crashed |-> FALSE, changed |-> FALSE]
    ELSE RedactEngine(store, page, NormalizeAll(page_space_rects_in),
                      recurse_forms, draw_black_boxes)


----------------------------------------------------------------------------
(* Inputs of the text-rewriter harness *)

\* Longest item sequence drawn, and longest rect list drawn.
MaxItems == 5
MaxRects == 2

FontSizes == {12}

Translate(x, y) == Matrix(1, 0, 0, 1, x * User, y * User)
\* Rotation by a quarter turn, then a translation.
Rotate90(x, y) == Matrix(0, 1, 0 - 1, 0, x * User, y * User)

TextObject(font, fs, cs, ws, tm, items) ==
    [id |-> 0, kind |-> "text", active |-> TRUE, font |-> font, fs |-> fs,
     cs |-> cs, ws |-> ws, tm |-> tm, items |-> items, dirty |-> FALSE]

\* Font and text state, text matrix and parent-to-page of a drawn object.
\* Char and word space are multiples of fs, so that space * 1000 / fs is exact.
Contexts ==
    { [font |-> "F1", cs |-> 0, ws |-> 0, tm |-> Translate(100, 200), p2p |-> Identity],
      [font |-> "F1", cs |-> 20 * Unit * 12, ws |-> 100 * Unit * 12,
       tm |-> Rotate90(100, 200), p2p |-> Translate(50, 50)],
      [font |-> "V1", cs |-> 0, ws |-> 0, tm |-> Translate(100, 200), p2p |-> Identity] }

\* Items: two codes, an integer TJ number and a fractional one (0.375).
ItemAlphabet == {Glyph("A"), Glyph(" "), Sep((0 - 50) * Unit), Sep(3)}

\* The parser yields item lists that begin and end with a glyph.
ItemSeqs ==
    UNION { { s \in [1..n -> ItemAlphabet] : ~IsSep(s[1]) /\ ~IsSep(s[n]) } : n \in 1..MaxItems }

\* A local-space rect inside the k-th glyph cell of a line of 600-wide glyphs
\* (of 1000-high cells below the vertical origin, for vertical writing).
SlotRect(font, fs, k) ==
    IF IsVertWriting(font)
    THEN Rect((0 - 100) * Unit * fs, (0 - 1000 * k - 800) * Unit * fs,
              100 * Unit * fs, (0 - 1000 * k - 200) * Unit * fs)
    ELSE Rect((600 * k + 100) * Unit * fs, 100 * Unit * fs,
              (600 * k + 500) * Unit * fs, 600 * Unit * fs)

PageSlotRect(ctx, fs, k) ==
    TransformRect(ctx.p2p, TransformRect(ctx.tm, SlotRect(ctx.font, fs, k)))

\* Rect lists: up to MaxRects slot rects, in increasing slot order.
RECURSIVE SlotList(_, _, _)
SlotList(ctx, fs, slots) ==
    IF slots = {} THEN <<>>
    ELSE LET k == CHOOSE x \in slots : \A y \in slots : x <= y
         IN <<PageSlotRect(ctx, fs, k)>> \o SlotList(ctx, fs, slots \ {k})

RectLists(ctx, fs, nslots) ==
    { SlotList(ctx, fs, S) : S \in { T \in SUBSET (0..(nslots - 1)) : Cardinality(T) <= MaxRects } }

\* The literal scenarios: "ABCDE" at size 12 and origin (100, 200), glyphs
\* 600 wide, without and with a TJ number -50 between B and C; one rect
\* over the glyph cells lo..hi (for the cell of C: x in [114, 120], y in
\* [200, 212]).
ScenarioContext == [font |-> "F1", cs |-> 0, ws |-> 0, tm |-> Translate(100, 200), p2p |-> Identity]
ScenarioItems1 == <<Glyph("A"), Glyph("B"), Glyph("C"), Glyph("D"), Glyph("E")>>
ScenarioItems4 == <<Glyph("A"), Glyph("B"), Sep((0 - 50) * Unit), Glyph("C"), Glyph("D"), Glyph("E")>>
ScenarioRect(lo, hi) ==
    Rect(100 * User + 600 * lo * Unit * 12 - (4 * User) \div 10, 200 * User,
         100 * User + 600 * hi * Unit * 12 + (56 * User) \div 10, 212 * User)

ScenarioInputs ==
    { [to |-> TextObject("F1", 12, 0, 0, ScenarioContext.tm, items),
       rects |-> <<ScenarioRect(r[1], r[2])>>, p2p |-> Identity] :
      items \in {ScenarioItems1, ScenarioItems4},
      r \in { q \in (0..4) \X (0..4) : q[1] <= q[2] } }

\* The input with the object of context ctx at size fs drawn with items, and
\* the rect list rl.
TextInput(ctx, fs, items, rl) ==
    [to |-> TextObject(ctx.font, fs, ctx.cs, ctx.ws, ctx.tm, items),
     rects |-> rl, p2p |-> ctx.p2p]

NoResult == [outcome |-> "none"]

\* A document with an empty page and no form.
EmptyStore == [holders |-> [h \in {PageId} |-> <<>>], next_id |-> 1, doc_objects |-> 0]

----------------------------------------------------------------------------
(* The text-rewriter harness: one call of RedactTextObjectMulti *)

TextInit ==
    /\ tpc = "ready"
    /\ \/ \E ctx \in Contexts, fs \in FontSizes, items \in ItemSeqs :
             \E rl \in RectLists(ctx, fs, MaxItems) : tin = TextInput(ctx, fs, items, rl)
       \/ tin \in ScenarioInputs
    /\ tout = NoResult
    /\ pstore = EmptyStore
    /\ hist = <<>>

\* The four-argument engine rewrites the drawn object.
RewriteText ==
    /\ tpc = "ready"
    /\ tout' = RedactTextObjectMulti(tin.to, tin.rects, tin.p2p)
    /\ tpc' = "done4"
    /\ UNCHANGED <<tin, pstore, hist>>

\* The three-argument engine rewrites the drawn object.
RewriteText3 ==
    /\ tpc = "ready"
    /\ tout' = RedactTextObjectMulti3(tin.to, tin.rects, tin.p2p)
    /\ tpc' = "done3"
    /\ UNCHANGED <<tin, pstore, hist>>

TextNext == RewriteText \/ RewriteText3

SpecText == TextInit /\ [][TextNext]_vars

----------------------------------------------------------------------------
(* Vocabulary of the claims about the text rewriter *)

Done4 == tpc = "done4"
Done3 == tpc = "done3"

\* Indexes of the TRUE entries of a list of flags, in order.
RECURSIVE IndexesFrom(_, _)
IndexesFrom(flags, i) ==
    IF i > Len(flags) THEN <<>>
    ELSE (IF flags[i] THEN <<i>> ELSE <<>>) \o IndexesFrom(flags, i + 1)

IsGlyphAt(items, i) == ~IsSep(items[i])

\* The page-space bbox of item i of the drawn object under the text matrix
\* the object had on entry, and whether it intersects some rect.
EntryBBox(i) ==
    GlyphBBoxInPage(tin.to, tin.to.font, tin.to.items[i].code,
                    GetItemInfo(tin.to, i), tin.p2p)
HitOnEntry(i) == IntersectsAny(EntryBBox(i), tin.rects)

GlyphIndexes(items) ==
    IndexesFrom([i \in 1..Len(items) |-> IsGlyphAt(items, i)], 1)
UnhitOnEntry ==
    IndexesFrom([i \in 1..Len(tin.to.items) |->
                    IsGlyphAt(tin.to.items, i) /\ ~HitOnEntry(i)], 1)
HitGlyphsOnEntry ==
    IndexesFrom([i \in 1..Len(tin.to.items) |->
                    IsGlyphAt(tin.to.items, i) /\ HitOnEntry(i)], 1)

RECURSIVE Flatten(_)
Flatten(strings) ==
    IF strings = <<>> THEN <<>> ELSE Head(strings) \o Flatten(Tail(strings))

CodesAt(items, idx) == [k \in 1..Len(idx) |-> items[idx[k]].code]

NoSeparators(items) == \A i \in 1..Len(items) : ~IsSep(items[i])
Horizontal == ~IsVertWriting(tin.to.font)

----------------------------------------------------------------------------
(* C1 *)

\* C1 (as claimed): after the four-argument rewriter has processed an object,
\* the glyphs it kept are exactly the glyph items whose page-space bbox, under
\* the text matrix the object had on entry, intersects no rect, in their
\* original order; the installed segments hold exactly their codes.
C1_KeptAreUnhitOnEntry ==
    Done4 =>
        /\ tout.kept = UnhitOnEntry
        /\ tout.installed => Flatten(tout.strings) = CodesAt(tin.to.items, UnhitOnEntry)

----------------------------------------------------------------------------
(* C2 *)

\* Page-space origin of item i of a text object: the local origin through
\* the text matrix, then through parent_to_page.
PageOrigin(to, p2p, i) ==
    LET it == GetItemInfo(to, i)
        ux == TransformX(to.tm, it.x, it.y)
        uy == TransformY(to.tm, it.x, it.y)
    IN <<TransformX(p2p, ux, uy), TransformY(p2p, ux, uy)>>

\* Distance between the origin the k-th kept glyph had on entry and the
\* origin the layout of the rewritten object gives it (the matrices drawn
\* are isometries, so page distances are user-space distances).
Drift(k) ==
    LET old == PageOrigin(tin.to, tin.p2p, tout.kept[k])
        new == PageOrigin(tout.to, tin.p2p, GlyphIndexes(tout.to.items)[k])
    IN Abs(new[1] - old[1]) + Abs(new[2] - old[2])

\* C2 (as claimed): every kept glyph of a rewritten horizontal text object is
\* laid out within 0.5 thousandths of an em (0.5/1000 * font_size user
\* units) of its original position.
C2_KeptGlyphsStayWithinHalfThousandth ==
    (Done4 /\ Horizontal /\ tout.installed) =>
        \A k \in 1..Len(tout.kept) : Drift(k) <= Half * tin.to.fs

----------------------------------------------------------------------------
(* C3 *)

\* C3: whenever a rewriter (either engine) has kept at least one glyph, the
\* CHECK before SetSegments holds and the vectors it installs satisfy
\* |kernings| + 1 = |segments|; the installed items are those vectors
\* interleaved.
C3_KerningsPlusOneIsSegments ==
    ((Done4 \/ Done3) /\ Len(tout.kept) > 0) =>
        /\ tout.check_ok
        /\ tout.installed
        /\ Len(tout.kernings) + 1 = Len(tout.strings)
        /\ Len(tout.to.items) = Len(Flatten(tout.strings)) + Len(tout.kernings)

\* A rewrite by the four-argument engine that removed a glyph and installed
\* at least two kernings.
C3_Witness ==
    /\ Done4
    /\ tout.installed
    /\ Len(tout.removed) > 0
    /\ Len(tout.kernings) >= 2

----------------------------------------------------------------------------
(* C4 *)

RECURSIVE SumSeq(_)
SumSeq(q) == IF q = <<>> THEN 0 ELSE Head(q) + SumSeq(Tail(q))

\* Advances, in thousandths, of the glyphs the rewriter removed, and the TJ
\* numbers of the drawn object.
RemovedAdvances ==
    [k \in 1..Len(tout.removed) |->
        AdvanceThousandths(tin.to, tin.to.font, tin.to.items[tout.removed[k]].code)]
Separators ==
    [k \in 1..Len(tin.to.items) |-> tin.to.items[k].adj]

Range(lo, hi) == [k \in 1..(hi - lo + 1) |-> lo + k - 1]
Codes(items, lo, hi) == CodesAt(items, Range(lo, hi))

\* The removed glyphs are the items lo..hi, strictly inside the item list.
RemovedStrictlyInside(lo, hi) ==
    /\ 1 < lo /\ lo <= hi /\ hi < Len(tin.to.items)
    /\ tout.removed = Range(lo, hi)

IsScenario(items, lo, hi) ==
    /\ tin.to.items = items
    /\ tin.to.tm = ScenarioContext.tm
    /\ tin.rects = <<ScenarioRect(lo, hi)>>

\* C4 (as claimed): in scenario 1 ("ABCDE", rect over C) the output is the
\* segments "AB", "DE" with the kerning [+600], text matrix unchanged.
C4_ScenarioKerningPlus600 ==
    (Done4 /\ IsScenario(ScenarioItems1, 2, 2)) =>
        /\ tout.strings = << <<"A", "B">>, <<"D", "E">> >>
        /\ tout.kernings = <<600 * Unit>>
        /\ tout.to.tm = tin.to.tm

\* C4 (amended): when the removed glyphs of a horizontal object without
\* separators lie strictly between two kept glyphs, the output is the two
\* kept runs with the single kerning MINUS the removed advance, and the text
\* matrix is unchanged; scenario 1 yields "AB", "DE", [-600].
C4_KerningIsMinusRemovedAdvance ==
    /\ (Done4 /\ Horizontal /\ NoSeparators(tin.to.items)) =>
          \A lo, hi \in 1..Len(tin.to.items) :
              RemovedStrictlyInside(lo, hi) =>
                  /\ tout.outcome = "kModified"
                  /\ tout.strings = << Codes(tin.to.items, 1, lo - 1),
                                       Codes(tin.to.items, hi + 1, Len(tin.to.items)) >>
                  /\ tout.kernings = <<0 - SumSeq(RemovedAdvances)>>
                  /\ tout.to.tm = tin.to.tm
    /\ (Done4 /\ IsScenario(ScenarioItems1, 2, 2)) =>
          /\ tout.strings = << <<"A", "B">>, <<"D", "E">> >>
          /\ tout.kernings = <<(0 - 600) * Unit>>
          /\ tout.to.tm = tin.to.tm

\* Scenario 1 has been rewritten, with C alone removed.
C4_Witness ==
    /\ Done4
    /\ IsScenario(ScenarioItems1, 2, 2)
    /\ tout.removed = <<3>>
    /\ tout.installed

----------------------------------------------------------------------------
(* C5 *)

\* C5 (as claimed): in scenario 4 (TJ number -50 between B and C, C removed)
\* the kerning between the kept runs is the sign-inverted accumulator, [650].
C5_ScenarioKerningPlus650 ==
    (Done4 /\ IsScenario(ScenarioItems4, 2, 2)) =>
        tout.kernings = <<650 * Unit>>

\* C5 (amended): when a separator precedes removed glyphs between two kept
\* runs (the only separator and the only removed glyphs of a horizontal
\* object), the kerning between the runs is the accumulator itself, sum of
\* separators minus removed advances, rounded: scenario 4 yields [-650].
C5_KerningIsAccumulator ==
    /\ (Done4 /\ Horizontal) =>
          \A sp, hi \in 1..Len(tin.to.items) :
              (/\ 1 < sp /\ sp < hi /\ hi < Len(tin.to.items)
               /\ IsSep(tin.to.items[sp])
               /\ \A i \in 1..Len(tin.to.items) : IsSep(tin.to.items[i]) => i = sp
               /\ tout.removed = Range(sp + 1, hi)) =>
                  /\ tout.strings = << Codes(tin.to.items, 1, sp - 1),
                                       Codes(tin.to.items, hi + 1, Len(tin.to.items)) >>
                  /\ tout.kernings =
                        << RoundThousandths(tin.to.items[sp].adj - SumSeq(RemovedAdvances))
                           * Unit >>
    /\ (Done4 /\ IsScenario(ScenarioItems4, 2, 2)) =>
          /\ tout.strings = << <<"A", "B">>, <<"D", "E">> >>
          /\ tout.kernings = <<(0 - 650) * Unit>>

\* Scenario 4 has been rewritten, with C alone removed.
C5_Witness ==
    /\ Done4
    /\ IsScenario(ScenarioItems4, 2, 2)
    /\ tout.removed = <<4>>
    /\ tout.installed

----------------------------------------------------------------------------
(* C6 *)

\* C6: when exactly the leading glyphs 1..k of a horizontal object without
\* separators are removed, total advance S thousandths, the rewrite yields
\* one segment with the remaining glyphs, no kerning, and the text matrix
\* moved along the text X axis by S * fs / 1000 (e += d * a, f += d * b);
\* "ABCDE" at size 12 with A removed yields "BCDE" and e + 7.2.
C6_LeadingRemovalShiftsTextMatrix ==
    /\ (Done4 /\ Horizontal /\ NoSeparators(tin.to.items)) =>
          \A k \in 1..(Len(tin.to.items) - 1) :
              tout.removed = Range(1, k) =>
                  LET d == SumSeq(RemovedAdvances) * tin.to.fs
                  IN /\ tout.outcome = "kModified"
                     /\ tout.strings = << Codes(tin.to.items, k + 1, Len(tin.to.items)) >>
                     /\ tout.kernings = <<>>
                     /\ tout.to.tm = [tin.to.tm EXCEPT !.e = @ + d * tin.to.tm.a,
                                                       !.f = @ + d * tin.to.tm.b]
    /\ (Done4 /\ IsScenario(ScenarioItems1, 0, 0)) =>
          /\ tout.strings = << <<"B", "C", "D", "E">> >>
          /\ tout.kernings = <<>>
          /\ tout.to.tm = [tin.to.tm EXCEPT !.e = @ + (72 * User) \div 10]

\* Scenario 3 has been rewritten, with A alone removed.
C6_Witness ==
    /\ Done4
    /\ IsScenario(ScenarioItems1, 0, 0)
    /\ tout.removed = <<1>>
    /\ tout.installed

----------------------------------------------------------------------------
(* C8 *)

\* C8 (as claimed): for a text object without separators whose glyphs
\* intersect no rect, the segments, kernings and text matrix after the
\* rewrite equal those before it.
C8_RoundTrip ==
    (Done4 /\ NoSeparators(tin.to.items) /\ HitGlyphsOnEntry = <<>>) =>
        /\ tout.to.items = tin.to.items
        /\ tout.to.tm = tin.to.tm

----------------------------------------------------------------------------
(* Inputs of the page harness *)

\* Most objects on a drawn page, and most engine calls in a row.
MaxObjs == 2
MaxCalls == 2

\* The one form XObject of the document, and the CPDF_Form parsed from it
\* for the form object at index i of the page: every form object owns its
\* own CPDF_Form.
FormId == "form1"
FormHolder(i) == FormId \o "#" \o ToString(i)

\* "ABCDE" at (100, 200), size 12.
ScenarioText == TextObject("F1", 12, 0, 0, Translate(100, 200), ScenarioItems1)
EmptyText == TextObject("F1", 12, 0, 0, Translate(100, 200), <<>>)
FontlessText == [ScenarioText EXCEPT !.font = NoFont]
InactiveText == [ScenarioText EXCEPT !.active = FALSE]

\* A 2 x 2 RGB24 image on the unit square (rows top-down, BGR in memory).
Rgb2x2 ==
    [W |-> 2, H |-> 2,
     dib |-> [bpp |-> 24, is_mask |-> FALSE, has_alpha |-> FALSE, palette |-> <<>>,
              scan |-> << <<10, 20, 30, 40, 50, 60>>, <<70, 80, 90, 100, 110, 120>> >>],
     smask |-> NoSMask,
     dict |-> [Type |-> "XObject", Subtype |-> "Image", Width |-> 2, Height |-> 2,
               ColorSpace |-> "DeviceRGB", BitsPerComponent |-> 8, SMask |-> NoSMaskEntry]]

ImageObject(matrix, image) ==
    [id |-> 0, kind |-> "image", active |-> TRUE, matrix |-> matrix, image |-> image,
     dirty |-> FALSE]

PathObject(matrix, bbox) ==
    [id |-> 0, kind |-> "path", active |-> TRUE, matrix |-> matrix, bbox |-> bbox,
     stroke |-> TRUE, filltype |-> "kNoFill", dirty |-> FALSE]

FormObject(form_matrix, form) ==
    [id |-> 0, kind |-> "form", active |-> TRUE, form_matrix |-> form_matrix, form |-> form,
     stream |-> FormId]

ShadingObject == [id |-> 0, kind |-> "shading", active |-> TRUE]

\* Tenths of a user unit.
Tenths(n) == (n * User) \div 10

\* The objects a page is drawn from.
ObjectPool ==
    << ScenarioText,
       EmptyText,
       FontlessText,
       InactiveText,
       ImageObject(Identity, Rgb2x2),
       PathObject(Identity, Rect(Tenths(1), Tenths(6), Tenths(4), Tenths(9))),
       PathObject(Identity, Rect(Tenths(4), Tenths(6), Tenths(8), Tenths(9))),
       FormObject(Translate(50, 50), FormId),
       FormObject(Identity, NoForm),
       ShadingObject >>

\* Rotation by a half turn, then a translation.
HalfTurn(x, y) == Matrix(0 - 1, 0, 0, 0 - 1, x * User, y * User)

\* The form holds "HELLO" at its local origin, size 12, and a path with the
\* local bbox (0, 0, 3, 5) drawn under a half turn about (53, 55): in the
\* form's space the path covers (103, 105, 106, 110).
FormContent ==
    << [TextObject("F1", 12, 0, 0, Identity,
                   <<Glyph("H"), Glyph("E"), Glyph("L"), Glyph("L"), Glyph("O")>>)
          EXCEPT !.id = 1],
       [PathObject(HalfTurn(106, 110), Rect(0, 0, 3 * User, 5 * User))
          EXCEPT !.id = 2] >>

\* Pages: up to MaxObjs objects of the pool, in pool order.
PageChoices ==
    UNION { { f \in [1..n -> 1..Len(ObjectPool)] : \A i \in 1..n, j \in 1..n : i <= j => f[i] <= f[j] }
            : n \in 0..MaxObjs }

\* Page objects get the ids after those of the objects of the form.
PageOf(f) ==
    [i \in 1..Len(f) |->
        IF ObjectPool[f[i]].kind = "form" /\ ObjectPool[f[i]].form # NoForm
        THEN [ObjectPool[f[i]] EXCEPT !.id = Len(FormContent) + i, !.form = FormHolder(i)]
        ELSE [ObjectPool[f[i]] EXCEPT !.id = Len(FormContent) + i]]

StoreOf(f) ==
    [holders |-> [h \in {PageId} \cup { FormHolder(i) : i \in { j \in 1..Len(f) :
                                                      /\ ObjectPool[f[j]].kind = "form"
                                                      /\ ObjectPool[f[j]].form # NoForm } }
                     |-> IF h = PageId THEN PageOf(f) ELSE FormContent],
     next_id |-> Len(FormContent) + Len(f) + 1,
     doc_objects |-> 0]

\* Rects: the cell of C, all five cells, the top-left quarter of the unit
\* square, the cell of H of the placed form.
RectPool ==
    << ScenarioRect(2, 2),
       ScenarioRect(0, 4),
       Rect(0, Tenths(5), Tenths(5), Tenths(10)),
       Rect(50 * User, 50 * User, 56 * User, 60 * User) >>

RECURSIVE PoolList(_)
PoolList(S) ==
    IF S = {} THEN <<>>
    ELSE LET k == CHOOSE x \in S : \A y \in S : x <= y
         IN <<RectPool[k]>> \o PoolList(S \ {k})

\* Arguments of RedactTextInRects: up to MaxRects rects of the pool.
RectsArgs ==
    { PoolList(S) : S \in { T \in SUBSET (1..Len(RectPool)) : Cardinality(T) <= MaxRects } }

\* A rect given with its corners exchanged.
Exchanged(r) == Rect(r.right, r.top, r.left, r.bottom)

\* Arguments of RedactTextInRect: a rect of the pool, as it is or exchanged.
RectArgs ==
    { RectPool[k] : k \in 1..Len(RectPool) } \cup { Exchanged(RectPool[1]) }

PageArgs == {PageId, NoPage}

----------------------------------------------------------------------------
(* The page harness: engine calls on one page *)

Init ==
    /\ tpc = "idle"
    /\ tin = [to |-> EmptyText, rects |-> <<>>, p2p |-> Identity]
    /\ tout = NoResult
    /\ \E f \in PageChoices : pstore = StoreOf(f)
    /\ hist = <<>>

\* The record of one call: its arguments, its result, the store before and
\* after.
CallRecord(api, page, rects, recurse_forms, draw_black_boxes, before, out) ==
    [api |-> api, page |-> page, rects |-> rects, recurse_forms |-> recurse_forms,
     draw_black_boxes |-> draw_black_boxes, ret |-> out.ret, changed |-> out.changed,
     log |-> out.log, crashed |-> out.crashed, before |-> before, after |-> out.store]

Engine(api, st, page, rects, recurse_forms, draw_black_boxes) ==
    IF api = "RedactTextInRect"
    THEN RedactTextInRect(st, page, rects[1], recurse_forms, draw_black_boxes)
    ELSE RedactTextInRects(st, page, rects, recurse_forms, draw_black_boxes)

Returned(api, page, rects, recurse_forms, draw_black_boxes, out) ==
    /\ pstore' = out.store
    /\ hist' = Append(hist, CallRecord(api, page, rects, recurse_forms,
                                       draw_black_boxes, pstore, out))
    /\ UNCHANGED <<tpc, tin, tout>>

DoCall(api, page, rects, recurse_forms, draw_black_boxes) ==
    Returned(api, page, rects, recurse_forms, draw_black_boxes,
             Engine(api, pstore, page, rects, recurse_forms, draw_black_boxes))

\* The embedder calls RedactTextInRect.
CallRedactTextInRect ==
    /\ hist = <<>>
    /\ \E page \in PageArgs, r \in RectArgs, recurse_forms \in BOOLEAN,
          draw_black_boxes \in BOOLEAN :
          DoCall("RedactTextInRect", page, <<r>>, recurse_forms, draw_black_boxes)

\* The embedder calls RedactTextInRects.
CallRedactTextInRects ==
    /\ hist = <<>>
    /\ \E page \in PageArgs, rects \in RectsArgs, recurse_forms \in BOOLEAN,
          draw_black_boxes \in BOOLEAN :
          DoCall("RedactTextInRects", page, rects, recurse_forms, draw_black_boxes)

\* The embedder repeats its last call with the same arguments.
RepeatCall ==
    /\ hist # <<>>
    /\ Len(hist) < MaxCalls
    /\ ~hist[Len(hist)].crashed
    /\ LET c == hist[Len(hist)]
       IN DoCall(c.api, c.page, c.rects, c.recurse_forms, c.draw_black_boxes)

Next == CallRedactTextInRect \/ CallRedactTextInRects \/ RepeatCall

Spec == Init /\ [][Next]_vars

----------------------------------------------------------------------------
(* The harness of nested forms: one engine call on a page whose form holds *)
(* a form, and so on                                                       *)

\* Deepest nesting of forms drawn.
MaxDepth == 3

\* A document with forms nested depth deep.  The page (level 0) places the
\* form of level 1 at (50, 50); the form of level k places the form of level
\* k + 1 with the identity.  After that form object, the holder of level k
\* has nothing (tails[k] = 1), a path that lies inside the cell of H once
\* placed at (50, 50) (2), or a second form object placed far from every
\* rect, with "HELLO" and the path in it (3).  The innermost form holds
\* "HELLO" and the path (leaf = 1), the text "H" (2) or a shading (3).
NestedStore(depth, leaf, tails) ==
    LET Level(k) == IF k = 0 THEN PageId ELSE "f" \o ToString(k)
        Aside(k) == "g" \o ToString(k)
        After(k) ==
            IF tails[k] = 2
            THEN << [PathObject(Identity, Rect(User, User, 2 * User, 2 * User))
                       EXCEPT !.id = 2] >>
            ELSE IF tails[k] = 3
            THEN << [FormObject(Translate(500, 500), FormId)
                       EXCEPT !.id = 2, !.form = Aside(k), !.stream = Aside(k)] >>
            ELSE <<>>
        Leaf ==
            IF leaf = 1 THEN FormContent
            ELSE IF leaf = 2
            THEN << [TextObject("F1", 12, 0, 0, Identity, <<Glyph("H")>>) EXCEPT !.id = 1] >>
            ELSE << [ShadingObject EXCEPT !.id = 1] >>
        Content(h) ==
            IF h = Level(depth) THEN Leaf
            ELSE IF \E k \in 0..(depth - 1) : h = Aside(k) THEN FormContent
            ELSE LET k == CHOOSE j \in 0..(depth - 1) : h = Level(j)
                 IN << [FormObject(IF k = 0 THEN Translate(50, 50) ELSE Identity, FormId)
                          EXCEPT !.id = 1, !.form = Level(k + 1), !.stream = Level(k + 1)] >>
                    \o After(k)
    IN [holders |-> [h \in { Level(k) : k \in 0..depth }
                             \cup { Aside(k) : k \in { j \in 0..(depth - 1) : tails[j] = 3 } }
                        |-> Content(h)],
        next_id |-> 3,
        doc_objects |-> 0]

NestedInit ==
    /\ tpc = "idle"
    /\ tin = [to |-> EmptyText, rects |-> <<>>, p2p |-> Identity]
    /\ tout = NoResult
    /\ \E depth \in 1..MaxDepth, leaf \in 1..3 :
          \E tails \in [0..(depth - 1) -> 1..3] : pstore = NestedStore(depth, leaf, tails)
    /\ hist = <<>>

\* The embedder calls RedactTextInRects of one of the two engines.
CallNested ==
    /\ hist = <<>>
    /\ \E rects \in RectsArgs \ {<<>>}, recurse_forms \in BOOLEAN, draw \in BOOLEAN :
          \/ DoCall("RedactTextInRects", PageId, rects, recurse_forms, draw)
          \/ /\ ~draw
             /\ LET w == RedactHolder3(pstore, <<>>, PageId, NormalizeAll(rects),
                                       Identity, recurse_forms)
                IN Returned("RedactTextInRects3", PageId, rects, recurse_forms, FALSE,
                            [ret |-> w.changed, store |-> w.store, log |-> w.log,
                             crashed |-> w.crashed, changed |-> w.changed])

SpecNested == NestedInit /\ [][CallNested]_vars

----------------------------------------------------------------------------
(* Vocabulary of the claims about engine calls *)

\* The call got a page and rects, so it walked the page.
Ran(c) == c.page # NoPage /\ c.rects # <<>>

\* The rects the engine works with.
NormRects(c) == NormalizeAll(c.rects)

Ids(objs) == { objs[i].id : i \in 1..Len(objs) }
ObjectsOf(objs) == { objs[i] : i \in 1..Len(objs) }

\* The holders call c walks, each with its transform to page space: the
\* page, and with recurse_forms the forms of the active form objects of the
\* page.
WalkedHolders(c) ==
    LET page == c.before.holders[PageId]
        forms == { i \in 1..Len(page) :
                     page[i].kind = "form" /\ page[i].active /\ page[i].form # NoForm }
    IN {[h |-> PageId, to_page |-> Identity]}
       \cup (IF c.recurse_forms
             THEN { [h |-> page[i].form, to_page |-> page[i].form_matrix] : i \in forms }
             ELSE {})

\* The text objects call c hands to the rewriter with a font.
VisitedTexts(c) ==
    UNION { { [h |-> v.h, to_page |-> v.to_page, to |-> o] :
                o \in { x \in ObjectsOf(c.before.holders[v.h]) :
                          x.kind = "text" /\ x.active /\ x.font # NoFont } }
            : v \in WalkedHolders(c) }

HasGlyph(to) == \E i \in 1..Len(to.items) : ~IsSep(to.items[i])

EveryGlyphHit(to, rects, to_page) ==
    \A i \in 1..Len(to.items) :
        ~IsSep(to.items[i]) =>
            IntersectsAny(GlyphBBoxInPage(to, to.font, to.items[i].code,
                                          GetItemInfo(to, i), to_page), rects)

\* Positions of the events of the log about object id of holder h.
EventsAt(c, ev, h, id) ==
    { k \in 1..Len(c.log) : c.log[k].ev = ev /\ c.log[k].holder = h /\ c.log[k].id = id }

Outcomes(c, h, id) == { c.log[k].what : k \in EventsAt(c, "visit", h, id) }

\* Object id of holder h is removed once, after every object of h that call
\* c dispatches has been dispatched a first time.
RemovedAfterWalk(c, h, id) ==
    /\ Cardinality(EventsAt(c, "remove", h, id)) = 1
    /\ \A m \in EventsAt(c, "remove", h, id) :
         \A k \in 1..Len(c.log) :
            (c.log[k].ev = "visit" /\ c.log[k].holder = h) =>
               \E j \in EventsAt(c, "visit", h, c.log[k].id) : j < m
    /\ id \notin Ids(c.after.holders[h])

----------------------------------------------------------------------------
(* C7 *)

\* C7: in a call that walks a holder, a text object of the holder (active,
\* with a font) that has a glyph and whose glyphs all intersect some rect
\* gets the outcome RemovedAll with no segments installed, is physically
\* removed from the holder after the walk of the holder, and the entry point
\* returns true; a text object without any glyph item gets the outcome
\* Unchanged and stays in the holder.
C7_AllHitIsRemovedEmptyIsLeft ==
    \A n \in 1..Len(hist) :
        Ran(hist[n]) =>
            \A v \in VisitedTexts(hist[n]) :
                /\ (HasGlyph(v.to) /\ EveryGlyphHit(v.to, NormRects(hist[n]), v.to_page)) =>
                      /\ RedactTextObjectMulti(v.to, NormRects(hist[n]), v.to_page).outcome
                            = "kRemovedAll"
                      /\ ~RedactTextObjectMulti(v.to, NormRects(hist[n]), v.to_page).installed
                      /\ Outcomes(hist[n], v.h, v.to.id) = {"kRemovedAll"}
                      /\ RemovedAfterWalk(hist[n], v.h, v.to.id)
                      /\ hist[n].ret
                /\ ~HasGlyph(v.to) =>
                      /\ Outcomes(hist[n], v.h, v.to.id) = {"kUnchanged"}
                      /\ v.to \in ObjectsOf(hist[n].after.holders[v.h])

\* A call without overlays removed the five-glyph text, all of whose glyphs
\* the rects cover, from the page and returned true.
C7_Witness ==
    \E n \in 1..Len(hist) :
        /\ Ran(hist[n]) /\ ~hist[n].draw_black_boxes /\ hist[n].ret
        /\ \E v \in VisitedTexts(hist[n]) :
              /\ v.h = PageId
              /\ Len(v.to.items) = 5
              /\ EveryGlyphHit(v.to, NormRects(hist[n]), v.to_page)
              /\ v.to.id \notin Ids(hist[n].after.holders[PageId])

----------------------------------------------------------------------------
(* C9 *)

\* The page objects that are not overlays of the calls made so far.
Content(st) ==
    LET Old(o) == o.id < hist[1].before.next_id
    IN [h \in DOMAIN st.holders |-> SelectSeq(st.holders[h], Old)]

\* C9 (as claimed): a second call of the engine with the same rects and
\* flags leaves the content of the page and of its forms, overlays apart,
\* as the first call left it, and returns draw_black_boxes.
C9_SecondCallChangesNothing ==
    \A n \in 2..Len(hist) :
        Ran(hist[n]) =>
            /\ Content(hist[n].after) = Content(hist[n - 1].after)
            /\ hist[n].ret = hist[n].draw_black_boxes

----------------------------------------------------------------------------
(* C10 *)

\* The overlay paths call c appended, by id.
OverlayIds(c) == { id \in Ids(c.after.holders[PageId]) : id >= c.before.next_id }

\* All overlay paths on the page after call c.
OverlaysOnPage(c) ==
    LET IsOverlay(o) == o.id >= hist[1].before.next_id
    IN SelectSeq(c.after.holders[PageId], IsOverlay)

\* C10 (as claimed): after a second call with draw_black_boxes and the same
\* rects, the page holds two overlay paths per rect: those of the first call
\* are still on the page.
C10_TwoOverlaysPerRect ==
    (Len(hist) >= 2 /\ Ran(hist[2]) /\ hist[2].draw_black_boxes) =>
        /\ Len(OverlaysOnPage(hist[2])) = 2 * Len(hist[2].rects)
        /\ OverlayIds(hist[1]) \subseteq Ids(hist[2].after.holders[PageId])

\* C10 (amended): the traversal of a repeated call with draw_black_boxes
\* removes the overlay paths of the call before it (each lies inside its own
\* rect), so after the call the page holds exactly one overlay path per rect,
\* those the call itself appended, as its last objects and in rect order.
C10_OneOverlayPerRect ==
    \A n \in 2..Len(hist) :
        (Ran(hist[n]) /\ hist[n].draw_black_boxes) =>
            /\ OverlayIds(hist[n - 1]) \cap Ids(hist[n].after.holders[PageId]) = {}
            /\ \A id \in OverlayIds(hist[n - 1]) :
                  EventsAt(hist[n], "remove", PageId, id) # {}
            /\ Len(OverlaysOnPage(hist[n])) = Len(hist[n].rects)
            /\ \A j \in 1..Len(hist[n].rects) :
                  LET page == hist[n].after.holders[PageId]
                      o == page[Len(page) - Len(hist[n].rects) + j]
                  IN /\ o.kind = "path"
                     /\ o.bbox = NormRects(hist[n])[j]
                     /\ o.id = hist[n].before.next_id + j - 1

\* A second call with draw_black_boxes and two rects has run: the page holds
\* two overlays, none of the first call.
C10_Witness ==
    /\ Len(hist) >= 2
    /\ Ran(hist[2]) /\ hist[2].draw_black_boxes
    /\ Len(hist[2].rects) = 2
    /\ Len(OverlaysOnPage(hist[2])) = 2
    /\ OverlayIds(hist[1]) # {}
    /\ OverlayIds(hist[1]) \cap Ids(hist[2].after.holders[PageId]) = {}

----------------------------------------------------------------------------
(* C11 *)

\* The objects of the page that call c found there and left there, in order.
Survivors(c) ==
    LET Old(o) == o.id < c.before.next_id
    IN SelectSeq(c.after.holders[PageId], Old)

\* The objects call c appended to the page, in order.
AppendedBy(c) ==
    LET New(o) == o.id >= c.before.next_id
    IN SelectSeq(c.after.holders[PageId], New)

\* Positions of the events of kind ev in the log of call c.
EventsOfKind(c, ev) == { k \in 1..Len(c.log) : c.log[k].ev = ev }

\* C11: a call with draw_black_boxes on a page appends exactly one filled
\* (winding fill, no stroke, identity matrix) path per normalized rect, in
\* input order, after every dispatch, removal and regeneration of its
\* traversal, so the page is the objects the traversal left followed by the
\* overlays; a call without draw_black_boxes appends nothing.
C11_OverlaysAppendedLastInOrder ==
    \A n \in 1..Len(hist) :
        /\ (Ran(hist[n]) /\ hist[n].draw_black_boxes) =>
              /\ hist[n].after.holders[PageId] = Survivors(hist[n]) \o AppendedBy(hist[n])
              /\ Len(AppendedBy(hist[n])) = Len(hist[n].rects)
              /\ \A j \in 1..Len(hist[n].rects) :
                    AppendedBy(hist[n])[j]
                       = [OverlayPath(NormRects(hist[n])[j])
                             EXCEPT !.id = hist[n].before.next_id + j - 1]
              /\ Cardinality(EventsOfKind(hist[n], "append")) = Len(hist[n].rects)
              /\ \A a \in EventsOfKind(hist[n], "append") :
                    \A k \in 1..Len(hist[n].log) :
                        hist[n].log[k].ev # "append" => k < a
              /\ Ids(Survivors(hist[n])) \subseteq Ids(hist[n].before.holders[PageId])
        /\ ~hist[n].draw_black_boxes =>
              /\ AppendedBy(hist[n]) = <<>>
              /\ hist[n].after.next_id = hist[n].before.next_id

\* A call with draw_black_boxes and two rects removed an object of the page
\* and left another, then appended its two overlays.
C11_Witness ==
    \E n \in 1..Len(hist) :
        /\ Ran(hist[n]) /\ hist[n].draw_black_boxes
        /\ Len(hist[n].rects) = 2
        /\ EventsOfKind(hist[n], "remove") # {}
        /\ Survivors(hist[n]) # <<>>
        /\ Len(AppendedBy(hist[n])) = 2

----------------------------------------------------------------------------
(* C12 *)

\* C12: RedactTextInRect returns false and touches nothing when the page is
\* null; RedactTextInRects returns false and touches nothing when the page is
\* null or the rect list is empty, draw_black_boxes notwithstanding; every
\* other call returns (the traversal reported a change) OR draw_black_boxes.
C12_EntryPointReturn ==
    \A n \in 1..Len(hist) :
        LET c == hist[n]
            refused == \/ c.page = NoPage
                       \/ c.api = "RedactTextInRects" /\ c.rects = <<>>
        IN /\ refused => /\ c.ret = FALSE
                         /\ c.after = c.before
                         /\ c.log = <<>>
           /\ ~refused => c.ret = (c.changed \/ c.draw_black_boxes)

\* RedactTextInRects was called twice on a page with objects, with an empty
\* list and draw_black_boxes set.
C12_Witness ==
    /\ Len(hist) = 2
    /\ \A n \in 1..2 :
          /\ hist[n].api = "RedactTextInRects" /\ hist[n].page = PageId
          /\ hist[n].rects = <<>> /\ hist[n].draw_black_boxes
          /\ hist[n].before.holders[PageId] # <<>>

----------------------------------------------------------------------------
(* C13 *)

\* The active path objects of the holders call c walks.
VisitedPaths(c) ==
    UNION { { [h |-> v.h, to_page |-> v.to_page, path |-> o] :
                o \in { x \in ObjectsOf(c.before.holders[v.h]) :
                          x.kind = "path" /\ x.active } }
            : v \in WalkedHolders(c) }

\* The bbox of a path in page space: the local bbox through the path's matrix
\* and then through the holder's transform to page space, normalized.
PathBBoxInPage(path, to_page) ==
    Normalize(TransformRect(to_page, TransformRect(path.matrix, path.bbox)))

Contains(outer, inner) ==
    /\ inner.left >= outer.left
    /\ inner.right <= outer.right
    /\ inner.bottom >= outer.bottom
    /\ inner.top <= outer.top

----------------------------------------------------------------------------
(* The image harness: one call of the image rewriter on one image *)

\* Decoded planes of 2 x 2 images, rows top-down: 8-bit gray, 8-bit indexed
\* with an opaque palette and with a palette carrying alpha, 24-bit BGR,
\* 32-bit BGRA, 32-bit BGRx, and an 8-bit mask (not a supported format).
DibPool ==
    << [Rgb2x2.dib EXCEPT !.bpp = 8, !.scan = << <<11, 22>>, <<33, 44>> >>],
       [Rgb2x2.dib EXCEPT !.bpp = 8, !.scan = << <<0, 1>>, <<1, 0>> >>,
                          !.palette = << [a |-> 255, r |-> 1, g |-> 2, b |-> 3],
                                         [a |-> 255, r |-> 4, g |-> 5, b |-> 6] >>],
       [Rgb2x2.dib EXCEPT !.bpp = 8, !.scan = << <<0, 1>>, <<1, 0>> >>,
                          !.palette = << [a |-> 128, r |-> 1, g |-> 2, b |-> 3],
                                         [a |-> 255, r |-> 4, g |-> 5, b |-> 6] >>],
       Rgb2x2.dib,
       [Rgb2x2.dib EXCEPT !.bpp = 32, !.has_alpha = TRUE,
                          !.scan = << <<10, 20, 30, 7, 40, 50, 60, 8>>,
                                      <<70, 80, 90, 9, 100, 110, 120, 0>> >>],
       [Rgb2x2.dib EXCEPT !.bpp = 32,
                          !.scan = << <<10, 20, 30, 7, 40, 50, 60, 8>>,
                                      <<70, 80, 90, 9, 100, 110, 120, 0>> >>],
       [Rgb2x2.dib EXCEPT !.bpp = 8, !.is_mask = TRUE, !.scan = << <<11, 22>>, <<33, 44>> >>] >>

\* GetScanline yields an empty span for the top row.
TopRowEmpty(dib) == [dib EXCEPT !.scan[1] = <<>>]

\* The decoded plane d of the pool with its top row as GetScanline yields
\* it: whole, an empty span, or a span of one byte.
Decoded(d, top) ==
    IF top = "empty" THEN TopRowEmpty(DibPool[d])
    ELSE IF top = "short" THEN [DibPool[d] EXCEPT !.scan[1] = SubSeq(@, 1, 1)]
    ELSE DibPool[d]

\* Soft-mask streams: none, one of W * H bytes, a shorter one.
SMaskPool == << NoSMask, <<1, 2, 3, 4>>, <<9>> >>

\* Placements: the unit square, the unit square upside down, a square of
\* side 2.
PlacementPool == << Identity, Matrix(1, 0, 0, 0 - 1, 0, User), Matrix(2, 0, 0, 2, 0, 0) >>

Quarters(n) == (n * User) \div 4

\* Rects in page space: the top-left quarter of the unit square, the unit
\* square, its middle, its bottom-right quarter, a strip inside its
\* bottom-left quarter, a rect over its top-right corner, a rect away from
\* it, a rect without width.
ImageRectPool ==
    << Rect(0, Quarters(2), Quarters(2), Quarters(4)),
       Rect(0, 0, Quarters(4), Quarters(4)),
       Rect(Quarters(1), Quarters(1), Quarters(3), Quarters(3)),
       Rect(Quarters(2), 0, Quarters(4), Quarters(2)),
       Rect(0, 0, Quarters(2), Quarters(1)),
       Rect(Quarters(3), Quarters(3), Quarters(6), Quarters(6)),
       Rect(Quarters(8), Quarters(8), Quarters(12), Quarters(12)),
       Rect(Quarters(2), Quarters(2), Quarters(2), Quarters(4)) >>

RECURSIVE ImageRectList(_)
ImageRectList(S) ==
    IF S = {} THEN <<>>
    ELSE LET k == CHOOSE x \in S : \A y \in S : x <= y
         IN <<ImageRectPool[k]>> \o ImageRectList(S \ {k})

ImageInput(dib, smask, placement, rects, fill_black) ==
    [iobj |-> ImageObject(placement,
                          [Rgb2x2 EXCEPT !.dib = dib, !.smask = smask,
                                         !.dict.SMask = IF smask = NoSMask THEN NoSMaskEntry
                                                        ELSE [Subtype |-> "Image"]]),
     rects |-> rects, p2p |-> Identity, fill_black |-> fill_black]

ImageInit ==
    /\ tpc = "image"
    /\ \E d \in 1..Len(DibPool), top \in {"whole", "empty", "short"}, s \in 1..Len(SMaskPool),
          p \in 1..Len(PlacementPool), fill_black \in BOOLEAN :
          \E S \in { T \in SUBSET (1..Len(ImageRectPool)) : Cardinality(T) <= MaxRects } :
             tin = ImageInput(Decoded(d, top),
                              SMaskPool[s], PlacementPool[p], ImageRectList(S), fill_black)
    /\ tout = NoResult
    /\ pstore = EmptyStore
    /\ hist = <<>>

\* The image rewriter runs on the drawn image.
RewriteImage ==
    /\ tpc = "image"
    /\ tout' = RedactImageObject(tin.iobj, tin.rects, tin.p2p, tin.fill_black)
    /\ tpc' = "imagedone"
    /\ UNCHANGED <<tin, pstore, hist>>

ImageNext == RewriteImage

SpecImage == ImageInit /\ [][ImageNext]_vars

----------------------------------------------------------------------------
(* Vocabulary of the claims about the image rewriter *)

\* The rewriter ran and installed a new stream.
Rewritten == tpc = "imagedone" /\ tout.changed

SrcImage == tin.iobj.image
OutImage == tout.iobj.image
ImagePixels == (0..(SrcImage.H - 1)) \X (0..(SrcImage.W - 1))

\* The float image rects and the integer boxes of the call.
CallImageRects ==
    PageRectsToImageGrid(MatMul(tin.p2p, tin.iobj.matrix), SrcImage.W, SrcImage.H, tin.rects)
CallBoxes == IntegerBoxes(CallImageRects, SrcImage.W, SrcImage.H)

\* Pixel x of top-down scanline row_top lies in some integer box.
InSomeBox(row_top, x) ==
    \E i \in 1..Len(CallBoxes) :
        /\ CallBoxes[i].x0 <= x /\ x < CallBoxes[i].x1
        /\ CallBoxes[i].y0 <= SrcImage.H - 1 - row_top
        /\ SrcImage.H - 1 - row_top < CallBoxes[i].y1

\* The RGB triple of a pixel of the installed stream (a decoded 24-bit
\* plane).
OutRGB(row_top, x) == ConvertedPixel(OutImage.dib, OutImage.dib.scan[row_top + 1], x)

FillRGB == IF tin.fill_black THEN <<0, 0, 0>> ELSE <<255, 255, 255>>

\* The source scanline holds the bytes of pixel x.
HasSourcePixel(row_top, x) ==
    ~ReadsOutOfBounds(SrcImage.dib, SrcImage.dib.scan[row_top + 1], x)

SourceRGB(row_top, x) == ConvertedPixel(SrcImage.dib, SrcImage.dib.scan[row_top + 1], x)

\* The alpha byte of a pixel is 0xFF when the installed image has a soft
\* mask.
OpaqueAt(row_top, x) ==
    OutImage.smask # NoSMask => OutImage.smask[row_top * SrcImage.W + x + 1] = 255

----------------------------------------------------------------------------
(* C14 *)

\* C14 as stated: in a rewritten image every pixel inside an integer box is
\* (fill, fill, fill) with alpha 0xFF, every pixel outside all boxes is the
\* converted source pixel, and the per-pixel test selects exactly the pixels
\* of the integer boxes.
C14_OutsideBoxesIsSource ==
    Rewritten =>
        \A q \in ImagePixels :
            /\ InSomeBox(q[1], q[2]) => OutRGB(q[1], q[2]) = FillRGB /\ OpaqueAt(q[1], q[2])
            /\ ~InSomeBox(q[1], q[2]) =>
                  /\ HasSourcePixel(q[1], q[2])
                  /\ OutRGB(q[1], q[2]) = SourceRGB(q[1], q[2])
            /\ PixelRedacted(q[2], SrcImage.H - 1 - q[1], CallImageRects)
                  <=> InSomeBox(q[1], q[2])

\* C14, amended: in a rewritten image every pixel inside an integer box is
\* (fill, fill, fill) with alpha 0xFF when an alpha plane exists; every pixel
\* outside all boxes, in a row whose decoded scanline is not empty, is the
\* converted source pixel; a row whose decoded scanline is empty is written
\* as fill with alpha 0xFF over its whole width; the per-pixel test selects
\* exactly the pixels of the integer boxes.
C14_OutsideBoxesIsSourceUnlessRowEmpty ==
    Rewritten =>
        \A q \in ImagePixels :
            /\ InSomeBox(q[1], q[2]) => OutRGB(q[1], q[2]) = FillRGB /\ OpaqueAt(q[1], q[2])
            /\ (~InSomeBox(q[1], q[2]) /\ SrcImage.dib.scan[q[1] + 1] # <<>>) =>
                  /\ HasSourcePixel(q[1], q[2])
                  /\ OutRGB(q[1], q[2]) = SourceRGB(q[1], q[2])
            /\ SrcImage.dib.scan[q[1] + 1] = <<>> =>
                  OutRGB(q[1], q[2]) = FillRGB /\ OpaqueAt(q[1], q[2])
            /\ PixelRedacted(q[2], SrcImage.H - 1 - q[1], CallImageRects)
                  <=> InSomeBox(q[1], q[2])

\* A BGRA image was rewritten with black fill for a rect that ends inside a
\* pixel: a pixel inside a box, a pixel outside all boxes with its source
\* bytes, and a soft mask installed.
C14_Witness ==
    /\ Rewritten
    /\ IsBgra32(SrcImage.dib) /\ tin.fill_black
    /\ OutImage.smask # NoSMask
    /\ tin.rects = <<ImageRectPool[5]>>
    /\ \E q \in ImagePixels : InSomeBox(q[1], q[2])
    /\ \E q \in ImagePixels : ~InSomeBox(q[1], q[2]) /\ HasSourcePixel(q[1], q[2])

----------------------------------------------------------------------------
(* C15 *)

\* The square of page space that pixel x of top-down scanline row_top
\* covers: row_top = 0 is the top row of the placed image.
PixelCellInPage(row_top, x) ==
    Normalize(TransformRect(MatMul(tin.p2p, tin.iobj.matrix),
                            Rect((x * User) \div SrcImage.W,
                                 ((SrcImage.H - 1 - row_top) * User) \div SrcImage.H,
                                 ((x + 1) * User) \div SrcImage.W,
                                 ((SrcImage.H - row_top) * User) \div SrcImage.H)))

\* The 2 x 2 image, all its scanlines whole, sits on the unit square and the
\* call has the one rect (0, 0.5, 0.5, 1).
TopLeftScenario ==
    /\ tin.iobj.matrix = Identity
    /\ tin.rects = <<Rect(0, Quarters(2), Quarters(2), Quarters(4))>>
    /\ SupportedFormat(SrcImage.dib)
    /\ \A q \in ImagePixels : HasSourcePixel(q[1], q[2])

\* C15: page rects reach the pixels with the vertical axis flipped: in a
\* rewritten image, the pixel at column x of top-down scanline row_top (its
\* scanline not empty) is overwritten exactly when the square of page space
\* it covers, with bottom-up y = H - 1 - row_top, intersects a rect; for the
\* 2 x 2 image on the unit square and the rect (0, 0.5, 0.5, 1) the image is
\* rewritten, the first pixel of scanline 0 is fill and the other three are
\* converted source data.
C15_VerticalAxisFlipped ==
    /\ Rewritten =>
          \A q \in ImagePixels :
              SrcImage.dib.scan[q[1] + 1] # <<>> =>
                  OutRGB(q[1], q[2])
                     = IF IntersectsAny(PixelCellInPage(q[1], q[2]), tin.rects)
                       THEN FillRGB ELSE SourceRGB(q[1], q[2])
    /\ (tpc = "imagedone" /\ TopLeftScenario) =>
          /\ tout.changed
          /\ \A q \in ImagePixels :
                OutRGB(q[1], q[2]) = IF q = <<0, 0>> THEN FillRGB ELSE SourceRGB(q[1], q[2])

\* The 2 x 2 RGB image on the unit square was rewritten for the rect
\* (0, 0.5, 0.5, 1) with white fill.
C15_Witness ==
    /\ Rewritten /\ TopLeftScenario
    /\ SrcImage = Rgb2x2 /\ ~tin.fill_black
    /\ OutRGB(0, 0) = <<255, 255, 255>>
    /\ OutRGB(1, 0) = <<90, 80, 70>>

----------------------------------------------------------------------------
(* C16 *)

\* Positions of the log of call c where a form object of the page is
\* entered.
FormEntries(c) ==
    { k \in 1..Len(c.log) :
        c.log[k].ev = "visit" /\ c.log[k].holder = PageId /\ c.log[k].what = "form" }

\* The traversal entered at position k of the log ends with GenerateContent
\* on the form: a generate event follows k before any other event of the
\* page.
GeneratedAfter(c, k) ==
    \E q \in (k + 1)..Len(c.log) :
        /\ c.log[q].ev = "generate"
        /\ \A j \in (k + 1)..q : c.log[j].holder # PageId

\* What the traversals of the forms placed on the page report, in paint
\* order, from page object i on; st is the store the next traversal finds.
RECURSIVE FormReports(_, _, _)
FormReportsFrom(c, w, i) == <<w.changed>> \o FormReports(c, w.store, i + 1)
FormReports(c, st, i) ==
    IF i > Len(c.before.holders[PageId]) THEN <<>>
    ELSE IF /\ c.before.holders[PageId][i].kind = "form"
            /\ c.before.holders[PageId][i].active
            /\ c.before.holders[PageId][i].form # NoForm
    THEN FormReportsFrom(c,
             RedactHolder(st, <<>>, c.before.holders[PageId][i].form, NormRects(c),
                          c.before.holders[PageId][i].form_matrix, TRUE,
                          c.draw_black_boxes),
             i)
    ELSE FormReports(c, st, i + 1)

\* The k-th smallest element of a set of numbers.
RECURSIVE Sorted(_)
Sorted(S) ==
    IF S = {} THEN <<>>
    ELSE LET m == CHOOSE x \in S : \A y \in S : x <= y
         IN <<m>> \o Sorted(S \ {m})

\* The holders of the forms placed at (50, 50) on the page of call c.
PlacedForms(c) ==
    { c.before.holders[PageId][i].form :
        i \in { j \in 1..Len(c.before.holders[PageId]) :
                  /\ c.before.holders[PageId][j].kind = "form"
                  /\ c.before.holders[PageId][j].active
                  /\ c.before.holders[PageId][j].form_matrix = Translate(50, 50) } }

\* The page holds the form with "HELLO" placed at (50, 50) and the call has
\* the one rect over the cell of H, with recurse_forms.
HelloScenario(c) ==
    /\ Ran(c) /\ c.recurse_forms
    /\ NormRects(c) = <<Rect(50 * User, 50 * User, 56 * User, 60 * User)>>
    /\ PlacedForms(c) # {}
    /\ \A h \in PlacedForms(c) :
          Codes(c.before.holders[h][1].items, 1, 5) = <<"H", "E", "L", "L", "O">>

\* What the text objects of a holder draw: the objects apart from their
\* dirty mark.
TextsOf(objs) == { [o EXCEPT !.dirty = FALSE] : o \in { x \in ObjectsOf(objs) : x.kind = "text" } }

----------------------------------------------------------------------------
(* C17 *)

\* The form XObject behind the form object that call c enters at position k
\* of its log.
StreamEntered(c, k) ==
    (CHOOSE o \in ObjectsOf(c.before.holders[PageId]) : o.id = c.log[k].id).stream

\* C17: every call returns, and in one call no form XObject is traversed more
\* than once: a form that was traversed already is skipped.
C17_EachFormTraversedAtMostOnce ==
    \A n \in 1..Len(hist) :
        /\ ~hist[n].crashed
        /\ \A k \in FormEntries(hist[n]), m \in FormEntries(hist[n]) :
              StreamEntered(hist[n], k) = StreamEntered(hist[n], m) => k = m

----------------------------------------------------------------------------
(* C18 *)

\* What is pending in the kerning pool when the first kept glyph is reached:
\* the TJ numbers before it minus the advances of the removed glyphs before
\* it, in thousandths.
PendingAtFirstKept ==
    SumSeq([j \in 1..(tout.kept[1] - 1) |->
               IF IsSep(tin.to.items[j]) THEN GetSeparatorAdjustment(tin.to, j)
               ELSE 0 - AdvanceThousandths(tin.to, tin.to.font, tin.to.items[j].code)])

\* The leading offset in user units: minus the pending pool scaled by the
\* font size, or with nothing pending the origin of the first kept glyph on
\* the writing axis.
LeadingOffset ==
    IF PendingAtFirstKept # 0 THEN (0 - PendingAtFirstKept) * tin.to.fs
    ELSE IF IsVertWriting(tin.to.font) THEN GetItemInfo(tin.to, tout.kept[1]).y
    ELSE GetItemInfo(tin.to, tout.kept[1]).x

\* C18: after a rewrite that kept a glyph, the text matrix is the matrix on
\* entry translated by the leading offset d along the text Y axis
\* (e + d * c, f + d * d) for a vertical-writing CID font, and along the text
\* X axis (e + d * a, f + d * b) for horizontal writing.
C18_VerticalLeadingShiftAlongY ==
    (Done4 /\ tout.kept # <<>>) =>
        tout.to.tm =
            IF IsVertWriting(tin.to.font)
            THEN [tin.to.tm EXCEPT !.e = @ + LeadingOffset * tin.to.tm.c,
                                   !.f = @ + LeadingOffset * tin.to.tm.d]
            ELSE [tin.to.tm EXCEPT !.e = @ + LeadingOffset * tin.to.tm.a,
                                   !.f = @ + LeadingOffset * tin.to.tm.b]

----------------------------------------------------------------------------
(* C19 *)

\* The rewriter's result out for the text object to is honest: installing
\* segments, text matrix and dirty mark goes with Modified, and Unchanged
\* goes with an object on which nothing was performed.
HonestOutcome(to, out) ==
    /\ out.installed => out.outcome = "kModified"
    /\ out.outcome = "kUnchanged" => ~out.installed /\ out.to = to

\* C19: in the first call on a page, for every text object handed to the
\* rewriter, SetSegments / SetTextMatrix / SetDirty are performed only with
\* the outcome Modified and the outcome Unchanged leaves the object as it
\* was; and when the traversal of the page returns false, every walked
\* holder holds the objects it held, unmutated.
C19_UnchangedMeansUntouched ==
    (hist # <<>> /\ Ran(hist[1])) =>
        /\ \A v \in VisitedTexts(hist[1]) :
              HonestOutcome(v.to, RedactTextObjectMulti(v.to, NormRects(hist[1]), v.to_page))
        /\ ~hist[1].changed =>
              \A v \in WalkedHolders(hist[1]) :
                  hist[1].after.holders[v.h] = hist[1].before.holders[v.h]

----------------------------------------------------------------------------
(* The kerning harness: one inter-run kerning flushed between two kept     *)
(* glyphs                                                                  *)

\* Largest kerning drawn, in thousandths; kernings are drawn in steps of an
\* eighth of a thousandth.
MaxKerning == 3

\* The state at a kept glyph that follows a kept glyph: one run, or two runs
\* with a kerning between them.
KeptRuns ==
    { [InitRedactionState(EmptyText) EXCEPT !.strings = << <<"A">> >>, !.any_kept = TRUE],
      [InitRedactionState(EmptyText) EXCEPT !.strings = << <<"A">>, <<"B">> >>,
                                            !.kernings = <<(0 - 600) * Unit>>,
                                            !.any_kept = TRUE] }

KerningInit ==
    /\ tpc = "pending"
    /\ \E k \in (0 - MaxKerning * Unit)..(MaxKerning * Unit), s \in KeptRuns,
          code \in {"A", " "} :
          tin = [k |-> k, s |-> s, item |-> [char_code |-> code, x |-> 0, y |-> 0]]
    /\ tout = NoResult
    /\ pstore = EmptyStore
    /\ hist = <<>>

\* Between kept runs: the deadband, then FlushSegment.
FlushKerning ==
    /\ tpc = "pending"
    /\ tout' = FlushSegment(tin.s, Deadband(tin.k))
    /\ tpc' = "flushed"
    /\ UNCHANGED <<tin, pstore, hist>>

\* The glyph is kept.
KeepGlyph ==
    /\ tpc = "flushed"
    /\ tout' = ResetBetweenRuns(AppendKeptGlyph(tout, tin.item))
    /\ tpc' = "appended"
    /\ UNCHANGED <<tin, pstore, hist>>

KerningNext == FlushKerning \/ KeepGlyph

SpecKerning == KerningInit /\ [][KerningNext]_vars

----------------------------------------------------------------------------
(* C20 *)

\* The integer nearest to k thousandths, a half going away from zero.
NearestHalfAway(k) ==
    CHOOSE n \in (0 - MaxKerning - 1)..(MaxKerning + 1) :
        \/ 2 * Abs(n * Unit - k) < Unit
        \/ 2 * Abs(n * Unit - k) = Unit /\ Abs(n * Unit) > Abs(k)

\* The value the rewriter writes for the kerning k: 0 below a quarter of a
\* thousandth, else the nearest integer.
WrittenKerning(k) == IF 4 * Abs(k) < Unit THEN 0 ELSE NearestHalfAway(k)

\* C20: a kerning k between two kept runs becomes 0 when |k| < 0.25 and else
\* the nearest integer, halves away from zero; when that value is not zero
\* it is pushed as a kerning entry and a new segment is opened, which the
\* next kept glyph starts; when it is zero nothing is pushed and the next
\* kept glyph is appended to the current segment.
C20_DeadbandThenRoundHalfAway ==
    /\ tpc \in {"flushed", "appended"} =>
          Len(tout.kernings) + 1 = Len(tout.strings)
    /\ tpc = "flushed" =>
          IF WrittenKerning(tin.k) # 0
          THEN /\ tout.kernings = Append(tin.s.kernings, WrittenKerning(tin.k) * Unit)
               /\ tout.strings = Append(tin.s.strings, <<>>)
          ELSE /\ tout.kernings = tin.s.kernings
               /\ tout.strings = tin.s.strings
    /\ tpc = "appended" =>
          IF WrittenKerning(tin.k) # 0
          THEN /\ tout.kernings = Append(tin.s.kernings, WrittenKerning(tin.k) * Unit)
               /\ tout.strings = Append(tin.s.strings, <<tin.item.char_code>>)
          ELSE /\ tout.kernings = tin.s.kernings
               /\ tout.strings =
                     [tin.s.strings EXCEPT ![Len(tin.s.strings)] =
                                              Append(@, tin.item.char_code)]

\* The kerning -0.5 was flushed as -1 and the next glyph started a new
\* segment.
C20_Witness ==
    /\ tpc = "appended"
    /\ tin.k = 0 - Half
    /\ tout.kernings = Append(tin.s.kernings, (0 - 1) * Unit)
    /\ Len(tout.strings) = Len(tin.s.strings) + 1

----------------------------------------------------------------------------
(* C21 *)

\* The ids of a list of objects, in order.
IdSeq(objs) == [i \in 1..Len(objs) |-> objs[i].id]

\* The place of the object with identity id in the holder h as call c found
\* it.
PlaceIn(c, h, id) ==
    CHOOSE i \in 1..Len(c.before.holders[h]) : c.before.holders[h][i].id = id

\* Positions of the log of call c with an event of kind ev about holder h.
HolderEvents(c, ev, h) ==
    { k \in 1..Len(c.log) : c.log[k].ev = ev /\ c.log[k].holder = h }

\* The ids call c removes from holder h.
RemovedIds(c, h) == { c.log[k].id : k \in HolderEvents(c, "remove", h) }

\* The objects of holder h that call c found there and did not remove, as
\* ids in the order call c found them.
KeptIdSeq(c, h) ==
    LET Stays(id) == id \notin RemovedIds(c, h)
    IN SelectSeq(IdSeq(c.before.holders[h]), Stays)

\* The ids of holder h after call c, the appended overlays left out.
OldIdSeq(c, h) ==
    LET Old(id) == id < c.before.next_id
    IN SelectSeq(IdSeq(c.after.holders[h]), Old)

\* C21: in every walked holder, the objects are dispatched in the holder's
\* order, each once; every removal of the holder comes after its last
\* dispatch; the removed objects are exactly those the walk scheduled
\* (emptied text, fully contained paths), each removed once; and the objects
\* that stay keep their relative order.
C21_RemovalsAfterWalkOrderKept ==
    \A n \in 1..Len(hist) :
        Ran(hist[n]) =>
            \A v \in WalkedHolders(hist[n]) :
                /\ \A k \in HolderEvents(hist[n], "visit", v.h),
                      m \in HolderEvents(hist[n], "visit", v.h) :
                      k < m => PlaceIn(hist[n], v.h, hist[n].log[k].id)
                                  < PlaceIn(hist[n], v.h, hist[n].log[m].id)
                /\ \A k \in HolderEvents(hist[n], "visit", v.h),
                      m \in HolderEvents(hist[n], "remove", v.h) : k < m
                /\ \A k \in HolderEvents(hist[n], "remove", v.h),
                      m \in HolderEvents(hist[n], "remove", v.h) :
                      hist[n].log[k].id = hist[n].log[m].id => k = m
                /\ RemovedIds(hist[n], v.h)
                      = { hist[n].log[k].id :
                            k \in { j \in HolderEvents(hist[n], "visit", v.h) :
                                      hist[n].log[j].what \in {"kRemovedAll", "scheduled"} } }
                /\ OldIdSeq(hist[n], v.h) = KeptIdSeq(hist[n], v.h)

\* A call scheduled the first object of the page, dispatched the second
\* one, removed the first after that and left the second.
C21_Witness ==
    \E n \in 1..Len(hist) :
        /\ Ran(hist[n])
        /\ Len(hist[n].before.holders[PageId]) = 2
        /\ RemovedIds(hist[n], PageId) = {hist[n].before.holders[PageId][1].id}
        /\ \E k \in HolderEvents(hist[n], "visit", PageId) :
              hist[n].log[k].id = hist[n].before.holders[PageId][2].id
        /\ OldIdSeq(hist[n], PageId) = <<hist[n].before.holders[PageId][2].id>>

----------------------------------------------------------------------------
(* C22 *)

\* The source image carries transparency: a 32-bit plane with alpha, a
\* soft-mask stream in its dictionary, or an 8-bit indexed plane with a
\* palette entry whose alpha byte is not 0xFF.
SourceHasTransparency ==
    \/ SrcImage.dib.bpp = 32 /\ SrcImage.dib.has_alpha
    \/ SrcImage.dict.SMask # NoSMaskEntry
    \/ /\ SrcImage.dib.bpp = 8 /\ ~SrcImage.dib.is_mask
       /\ \E i \in 1..Len(SrcImage.dib.palette) : SrcImage.dib.palette[i].a # 255

\* The rewrite produced an alpha plane.
AlphaPlaneProduced == OutImage.smask # NoSMask

\* C22: a rewritten image has an alpha plane exactly when its source carried
\* transparency; its new dictionary references a DeviceGray 8-bit soft mask
\* of the image's size exactly when the alpha plane was produced (one new
\* document object), and always says DeviceRGB, 8 bits per component and the
\* source's width and height.
C22_AlphaPlaneIffSourceTransparency ==
    Rewritten =>
        /\ AlphaPlaneProduced <=> SourceHasTransparency
        /\ AlphaPlaneProduced => Len(OutImage.smask) = SrcImage.W * SrcImage.H
        /\ (OutImage.dict.SMask # NoSMaskEntry) <=> AlphaPlaneProduced
        /\ tout.new_objects = (IF AlphaPlaneProduced THEN 1 ELSE 0)
        /\ AlphaPlaneProduced =>
              /\ OutImage.dict.SMask.ColorSpace = "DeviceGray"
              /\ OutImage.dict.SMask.BitsPerComponent = 8
              /\ OutImage.dict.SMask.Width = SrcImage.W
              /\ OutImage.dict.SMask.Height = SrcImage.H
        /\ OutImage.dict.ColorSpace = "DeviceRGB"
        /\ OutImage.dict.BitsPerComponent = 8
        /\ OutImage.dict.Width = SrcImage.W
        /\ OutImage.dict.Height = SrcImage.H

\* An indexed image whose only transparency is in its palette was rewritten
\* with a soft mask.
C22_Witness ==
    /\ Rewritten
    /\ SrcImage.dib.bpp = 8 /\ SrcImage.dib.palette # <<>>
    /\ SrcImage.dict.SMask = NoSMaskEntry
    /\ AlphaPlaneProduced
    /\ OutImage.dict.SMask.ColorSpace = "DeviceGray"

----------------------------------------------------------------------------
(* C23 *)

\* The call gets as far as the loop over the scanlines: the placed image
\* touches a rect, its plane has a supported format, and some integer box
\* is left.
EntersPixelLoop ==
    /\ tpc = "imagedone"
    /\ \E i \in 1..Len(tin.rects) :
          Intersects(TransformRect(MatMul(tin.p2p, tin.iobj.matrix), UnitSquare),
                     tin.rects[i])
    /\ SupportedFormat(SrcImage.dib)
    /\ CallBoxes # <<>>

\* The scanlines of the source with fewer than W bytes.
ShortRows ==
    { r \in 0..(SrcImage.H - 1) : Len(SrcImage.dib.scan[r + 1]) < SrcImage.W }

\* C23: when the call processes an image with a scanline shorter than W
\* (empty included), it reads nothing past the end of a scanline, completes,
\* and every pixel of that row is the fill colour, with alpha 0xFF where an
\* alpha plane is produced.
C23_ShortScanlineRowRedacted ==
    (EntersPixelLoop /\ ShortRows # {}) =>
        /\ ~tout.crashed
        /\ Rewritten
        /\ \A r \in ShortRows : \A x \in 0..(SrcImage.W - 1) :
              /\ OutRGB(r, x) = FillRGB
              /\ AlphaPlaneProduced => OutImage.smask[r * SrcImage.W + x + 1] = 255

----------------------------------------------------------------------------
(* C24 *)

\* The traversal has nothing to do with the object o: it is inactive, of a
\* kind other than text, image, path and form, a text object without a
\* font, a form object without a form, or a form object met without
\* recurse_forms.
Skipped(c, o) ==
    \/ ~o.active
    \/ o.kind \notin {"text", "image", "path", "form"}
    \/ o.kind = "text" /\ o.font = NoFont
    \/ o.kind = "form" /\ o.form = NoForm
    \/ o.kind = "form" /\ ~c.recurse_forms

\* The traversal dispatches the object o: it is active and a text, image or
\* path object, or a form object with a form met with recurse_forms.
Dispatched(c, o) ==
    /\ o.active
    /\ \/ o.kind \in {"text", "image", "path"}
       \/ o.kind = "form" /\ o.form # NoForm /\ c.recurse_forms

\* C24: a call leaves every skipped object of a walked holder as it was and
\* in its holder, removes none of them, and dispatches every other object of
\* the holder whatever was skipped before it; without recurse_forms nothing
\* happens in a form and its objects stay as they were.
C24_SkippedObjectsUntouched ==
    \A n \in 1..Len(hist) :
        Ran(hist[n]) =>
            /\ \A v \in WalkedHolders(hist[n]) :
                  \A i \in 1..Len(hist[n].before.holders[v.h]) :
                      LET o == hist[n].before.holders[v.h][i]
                      IN /\ Skipped(hist[n], o) =>
                               /\ o \in ObjectsOf(hist[n].after.holders[v.h])
                               /\ o.id \notin RemovedIds(hist[n], v.h)
                               /\ o.kind = "text" \/ EventsAt(hist[n], "visit", v.h, o.id) = {}
                         /\ Dispatched(hist[n], o) =>
                               Cardinality(EventsAt(hist[n], "visit", v.h, o.id)) = 1
            /\ ~hist[n].recurse_forms =>
                  \A h \in DOMAIN hist[n].before.holders \ {PageId} :
                      /\ hist[n].after.holders[h] = hist[n].before.holders[h]
                      /\ \A k \in 1..Len(hist[n].log) : hist[n].log[k].holder # h

\* A call found an inactive text object with glyphs under a rect and a path
\* inside a rect after it: the text object stayed as it was, the path was
\* dispatched and removed.
C24_Witness ==
    \E n \in 1..Len(hist) :
        /\ Ran(hist[n])
        /\ Len(hist[n].before.holders[PageId]) = 2
        /\ ~hist[n].before.holders[PageId][1].active
        /\ hist[n].before.holders[PageId][1].kind = "text"
        /\ \E j \in 1..Len(NormRects(hist[n])) : NormRects(hist[n])[j] = ScenarioRect(0, 4)
        /\ hist[n].before.holders[PageId][2].kind = "path"
        /\ RemovedIds(hist[n], PageId) = {hist[n].before.holders[PageId][2].id}
        /\ hist[n].after.holders[PageId] = <<hist[n].before.holders[PageId][1]>>

----------------------------------------------------------------------------
(* C25 *)

\* The origin of item i of the drawn object on the writing axis.
AxisOrigin(i) ==
    IF IsVertWriting(tin.to.font) THEN GetItemInfo(tin.to, i).y
    ELSE GetItemInfo(tin.to, i).x

\* The explicit-path value between the items p and k: the TJ numbers
\* between them minus the advances of the glyphs between them.
ExplicitBetween(p, k) ==
    SumSeq([j \in 1..(k - p - 1) |->
               IF IsSep(tin.to.items[p + j]) THEN GetSeparatorAdjustment(tin.to, p + j)
               ELSE 0 - AdvanceThousandths(tin.to, tin.to.font, tin.to.items[p + j].code)])

\* The synthesized value between the glyphs p and k: the advance of p minus
\* the distance of their origins in thousandths.
SynthesizedBetween(p, k) ==
    AdvanceThousandths(tin.to, tin.to.font, tin.to.items[p].code)
       - (AxisOrigin(k) - AxisOrigin(p)) \div tin.to.fs

\* Between every kept glyph and the next kept one the two values agree.
KerningPathsAgree ==
    \A j \in 1..(Len(tout.kept) - 1) :
        ExplicitBetween(tout.kept[j], tout.kept[j + 1])
           = SynthesizedBetween(tout.kept[j], tout.kept[j + 1])

\* At the first kept glyph, minus the pending pool scaled by the font size
\* is the origin of that glyph on the writing axis.
LeadingPathsAgree ==
    (0 - PendingAtFirstKept) * tin.to.fs = AxisOrigin(tout.kept[1])

\* C25: after a rewrite that kept a glyph, the explicit and the synthesized
\* kerning agree between every two consecutive kept glyphs, and at the first
\* kept glyph the offset taken from the pending pool equals that glyph's
\* local origin.
C25_KerningPathsAgree ==
    (Done4 /\ tout.kept # <<>>) => KerningPathsAgree /\ LeadingPathsAgree

----------------------------------------------------------------------------
(* C26 *)

\* The state of the rewriter after the loop over the items of the drawn
\* object, before a dangling run is dropped.
AfterItemLoop ==
    RedactItems(tin.to, tin.rects, tin.p2p, InitRedactionState(tin.to), 1)

\* C26: in every pair of vectors the rewriter installs, every kerning is a
\* whole number of thousandths other than zero and every segment holds a
\* code; the step that drops a dangling run finds none, so it takes away no
\* kerning between two kept runs.
C26_KerningsNonZeroSegmentsNonEmpty ==
    (Done4 /\ tout.installed) =>
        /\ \A j \in 1..Len(tout.kernings) :
              tout.kernings[j] # 0 /\ tout.kernings[j] % Unit = 0
        /\ \A j \in 1..Len(tout.strings) : tout.strings[j] # <<>>
        /\ DropDangling(AfterItemLoop) = AfterItemLoop
        /\ tout.kernings = AfterItemLoop.kernings

\* A rewrite removed a glyph and installed segments with a kerning between
\* two kept runs.
C26_Witness ==
    /\ Done4 /\ tout.installed
    /\ tout.removed # <<>>
    /\ Len(tout.kernings) >= 1
    /\ Len(tout.strings) = Len(tout.kernings) + 1

----------------------------------------------------------------------------
(* C27 *)

\* The holder that holds the form object owning the form h, in the store
\* call c found.
ParentOf(c, h) ==
    CHOOSE p \in DOMAIN c.before.holders :
        \E i \in 1..Len(c.before.holders[p]) :
            c.before.holders[p][i].kind = "form" /\ c.before.holders[p][i].form = h

\* The event at position k of the log of call c changes the holder it is
\* about: a rewritten or emptied text object, an overwritten image, a
\* scheduled path, a removal.
ChangesHolder(c, k) ==
    \/ c.log[k].ev = "remove"
    \/ /\ c.log[k].ev = "visit"
       /\ c.log[k].what \in {"kModified", "kRemovedAll", "overwritten", "scheduled"}

\* The holder x is the form h or belongs to a form inside it.
RECURSIVE Under(_, _, _)
Under(c, x, h) == x = h \/ (x # PageId /\ Under(c, ParentOf(c, x), h))

\* The position of the first event after k that is not about the form h or
\* a form inside it (the next thing the holder around h does), or the end
\* of the log.
NextOf(c, h, k) ==
    IF \E q \in (k + 1)..Len(c.log) : ~Under(c, c.log[q].holder, h)
    THEN CHOOSE q \in (k + 1)..Len(c.log) :
             /\ ~Under(c, c.log[q].holder, h)
             /\ \A j \in (k + 1)..(q - 1) : Under(c, c.log[j].holder, h)
    ELSE Len(c.log) + 1

\* Positions of the log of call c where GenerateContent runs on the form h.
Regenerations(c, h) ==
    { k \in 1..Len(c.log) : c.log[k].ev = "generate" /\ c.log[k].holder = h }

\* Positions of the log of call c where a form object is entered.
Entries(c) ==
    { k \in 1..Len(c.log) : c.log[k].ev = "visit" /\ c.log[k].what = "form" }

\* The form call c enters at position k of its log.
Entered(c, k) ==
    (CHOOSE o \in ObjectsOf(c.before.holders[c.log[k].holder]) : o.id = c.log[k].id).form

\* C27: in a call with recurse_forms, every change inside a form is followed
\* by GenerateContent on that form, and GenerateContent on a form inside a
\* form is followed by GenerateContent on the form around it; between
\* entering a form and the next thing the holder around it does,
\* GenerateContent runs on the form at most once, as the last step, after
\* every removal in the form, and it runs exactly when something in the form
\* or in a form inside it changed; the page is never regenerated.
C27_NestedFormsRegeneratedInnermostFirst ==
    (hist # <<>> /\ hist[1].recurse_forms) =>
        /\ \A k \in 1..Len(hist[1].log) :
              (ChangesHolder(hist[1], k) /\ hist[1].log[k].holder # PageId) =>
                  \E g \in Regenerations(hist[1], hist[1].log[k].holder) : g > k
        /\ \A k \in 1..Len(hist[1].log) :
              (hist[1].log[k].ev = "generate"
                  /\ ParentOf(hist[1], hist[1].log[k].holder) # PageId) =>
                  \E g \in Regenerations(hist[1], ParentOf(hist[1], hist[1].log[k].holder)) :
                      g > k
        /\ Regenerations(hist[1], PageId) = {}
        /\ \A k \in Entries(hist[1]) :
              LET h == Entered(hist[1], k)
                  q == NextOf(hist[1], h, k)
                  inside == (k + 1)..(q - 1)
              IN /\ Regenerations(hist[1], h) \subseteq {q - 1}
                 /\ (q - 1 \in Regenerations(hist[1], h))
                       <=> \E j \in inside :
                              \/ ChangesHolder(hist[1], j)
                              \/ hist[1].log[j].ev = "generate" /\ hist[1].log[j].holder # h
                 /\ \A j \in 1..Len(hist[1].log) :
                       hist[1].log[j].holder = h => j \in inside

\* A call changed the text of a form nested three deep and removed a path
\* of the form around it: GenerateContent ran on the three forms, innermost
\* first, on the middle one after the removal of its path.
C27_Witness ==
    /\ hist # <<>> /\ hist[1].recurse_forms
    /\ "f3" \in DOMAIN hist[1].before.holders
    /\ \E g3 \in Regenerations(hist[1], "f3"), g2 \in Regenerations(hist[1], "f2"),
          g1 \in Regenerations(hist[1], "f1") :
          /\ g3 < g2 /\ g2 < g1
          /\ \E r \in HolderEvents(hist[1], "remove", "f2") : g3 < r /\ r < g2

====
